---- MODULE Spec2Model ----
(***************************************************************************)
(* Model of the two-stage comment-report pipeline:                         *)
(*   stage 1  RawDataProcessor.tsx   (tab-separated text -> editable table)*)
(*   stage 2  AnnotatedDataProcessor (annotated table -> grouped records)  *)
(*                                                                         *)
(* A JavaScript string is a sequence of one-character strings, so that     *)
(* trim, split and concatenation are computed and not assumed.  A column   *)
(* name is such a sequence too; the thirteen required names are written    *)
(* as one-letter-per-token words (a name is only ever compared, trimmed    *)
(* or lower-cased as a whole).                                             *)
(***************************************************************************)
EXTENDS Integers, Sequences, FiniteSets

VARIABLES
    columns,      \* validateColumns: the column list handed to it
    edits,        \* how many changes the caller made to that list
    valResult,    \* validateColumns: what the call produced (NotRun before)
    file,         \* stage 1: the selected .txt file, or Null
    processing,   \* stage 1: the processing flag
    reading,      \* stage 1: the file whose text() a processFile call awaits
    error,        \* stage 1: the error shown, or Null
    tableData,    \* stage 1: the committed table, or Null
    tfHint,       \* stage 1: the hint under the tf editor, or Null
    decoded,      \* stage 1: locals of the processFile call last finished
                  \*          for the selected file
    validationError, \* stage 1: the report of the tf gate, or Null
    xlsxFile,     \* stage 1: the selected spreadsheet, or Null
    xlsxError,    \* stage 1: the error of the spreadsheet upload, or Null
    xlsxProcessing, \* stage 1: the processing flag of the spreadsheet upload
    xlsxReading,  \* stage 1: the files whose arrayBuffer() is awaited
    tableEdits,   \* how many tf edits and row deletions changed the table so far
    currentStep,  \* App: the step shown, 1 or 2
    processedTableData, \* App: the table kept for step 2, or Null
    selectedMethod, \* stage 2: "online" or "offline"
    annFile,      \* stage 2: the selected spreadsheet, or Null (state `file`)
    annProcessing, \* stage 2: the processing flag (state `processing`)
    annReading,   \* stage 2: the awaited reads, each with its component alive or not
    annError,     \* stage 2: the error shown, or Null (state `error`)
    result,       \* stage 2: the summary of the last successful run, or Null
    downloadUrl,  \* stage 2: the object URL offered for download, or Null
    minted,       \* how many object URLs URL.createObjectURL has handed out
    revoked,      \* the object URLs passed to URL.revokeObjectURL
    tfIn,         \* normalizeTf: the value handed to it
    tfOut,        \* normalizeTf: what the call produced (NotRun before)
    jsonData,     \* transformAndAggregate: the rows handed to it
    aggResult,    \* transformAndAggregate: what the call produced
    shuffle,      \* the order in which the same rows are handed over again
    aggShuffled   \* transformAndAggregate: what it produced for that order

valVars == <<columns, edits, valResult>>
rawVars == <<file, processing, reading, error, tableData, tfHint, decoded,
             validationError, xlsxFile, xlsxError, xlsxProcessing, xlsxReading,
             tableEdits>>
tfVars == <<tfIn, tfOut>>
aggVars == <<jsonData, aggResult, shuffle, aggShuffled>>
appVars == <<currentStep, processedTableData>>
annVars == <<selectedMethod, annFile, annProcessing, annReading, annError,
             result, downloadUrl, minted, revoked>>

vars == <<valVars, rawVars, tfVars, aggVars, appVars, annVars>>

----------------------------------------------------------------------------
(* Strings *)

TAB == "\t"
NL == "\n"
SP == " "
BOM == "BOM"
CTRL1 == "u0001"
CTRL2 == "u0002"
DOLLAR == "$"
USCORE == "_"

\* String.prototype.trim strips WhiteSpace and LineTerminator code points;
\* U+FEFF is WhiteSpace, U+0001 and U+0002 are not.
IsSpace(c) == c \in {SP, TAB, NL, BOM}

RECURSIVE TrimLeft(_)
TrimLeft(s) ==
    IF s = <<>> THEN <<>>
    ELSE IF IsSpace(Head(s)) THEN TrimLeft(Tail(s))
    ELSE s

RECURSIVE TrimRight(_)
TrimRight(s) ==
    IF s = <<>> THEN <<>>
    ELSE IF IsSpace(s[Len(s)]) THEN TrimRight(SubSeq(s, 1, Len(s) - 1))
    ELSE s

Trim(s) == TrimRight(TrimLeft(s))

\* s.split(sep): the pieces between the occurrences of sep; never empty,
\* "" splits into [""].  The two halves of s are split and the piece the
\* cut went through is put together again.
RECURSIVE Split(_, _)
Split(s, sep) ==
    IF Len(s) = 0 THEN << <<>> >>
    ELSE IF Len(s) = 1 THEN (IF s[1] = sep THEN << <<>>, <<>> >> ELSE <<s>>)
    ELSE LET m == Len(s) \div 2
             l == Split(SubSeq(s, 1, m), sep)
             r == Split(SubSeq(s, m + 1, Len(s)), sep)
         IN  SubSeq(l, 1, Len(l) - 1) \o <<l[Len(l)] \o r[1]>> \o Tail(r)

\* arr.join(sep) for an array of strings.
RECURSIVE Join(_, _)
Join(arr, sep) ==
    IF arr = <<>> THEN <<>>
    ELSE IF Len(arr) = 1 THEN arr[1]
    ELSE arr[1] \o sep \o Join(Tail(arr), sep)

----------------------------------------------------------------------------
(* The required schema *)

REQUIRED_COLUMNS ==
    << <<"part_time">>, <<"firstcategoryname">>, <<"name">>, <<"cid">>,
       <<"sentiment_tag">>, <<"begin_time">>, <<"end_time">>, <<"index_">>,
       <<"opinion">>, <<"score">>, <<"num">>, <<"raw_comments">>, <<"tf">> >>

\* '(空)', shown in place of an empty column title.
EmptyPlaceholder == <<"(empty)">>

NotRun == [kind |-> "none"]
Valid == [kind |-> "ok"]

\* The branch of validateColumns for columns.length !== REQUIRED_COLUMNS.length.
LengthError(cols) ==
    [kind |-> "length",
     count |-> Len(cols),
     yourCols |-> cols,
     required |-> REQUIRED_COLUMNS,
     directive |-> IF Len(cols) > Len(REQUIRED_COLUMNS) THEN "remove" ELSE "add"]

\* The error thrown inside the loop at 0-based index i - 1.
OrderError(cols, i) ==
    [kind |-> "order",
     column |-> i,
     expected |-> REQUIRED_COLUMNS[i],
     actual |-> IF cols[i] = <<>> THEN EmptyPlaceholder ELSE cols[i],
     directive |-> IF cols[i] = <<>> THEN "fill" ELSE "rename"]

\* The loop run from the last column down: the last mismatch is reported.
RECURSIVE OrderLoopDown(_, _)
OrderLoopDown(cols, i) ==
    LET k == Len(REQUIRED_COLUMNS) + 1 - i
    IN  IF k < 1 THEN Valid
        ELSE IF cols[k] # REQUIRED_COLUMNS[k] THEN OrderError(cols, k)
        ELSE OrderLoopDown(cols, i + 1)

\* for (let i = 0; i < REQUIRED_COLUMNS.length; i++): i here is 1-based.
RECURSIVE OrderLoop(_, _)
OrderLoop(cols, i) ==
    IF i > Len(REQUIRED_COLUMNS) THEN Valid
    ELSE IF cols[i] # REQUIRED_COLUMNS[i] THEN OrderError(cols, i)
    ELSE OrderLoop(cols, i + 1)

\* validateColumns testing "<" for "!==": extra columns go unnoticed.
ValidateColumnsShortOnly(cols) ==
    IF Len(cols) < Len(REQUIRED_COLUMNS) THEN LengthError(cols)
    ELSE OrderLoop(cols, 1)

\* validateColumns that never throws.
ValidateColumnsAny(cols) == Valid

ValidateColumns(cols) ==
    IF Len(cols) # Len(REQUIRED_COLUMNS) THEN LengthError(cols)
    ELSE OrderLoop(cols, 1)

----------------------------------------------------------------------------
(* Stage 1: RawDataProcessor *)

Null == [kind |-> "null"]

\* toLowerCase, on the upper-case tokens the headers below use.
LowerChar(c) ==
    CASE c = "TF" -> "tf"
      [] c = "RAW_COMMENTS" -> "raw_comments"
      [] OTHER -> c

ToLowerCase(s) == [i \in 1..Len(s) |-> LowerChar(s[i])]

\* s.replace(/c/g, '') for every c in chars.
Remove(s, chars) == SelectSeq(s, LAMBDA c : c \notin chars)

\* s.replace(/c/g, ' ') for every c in chars.
Blank(s, chars) == [i \in 1..Len(s) |-> IF s[i] \in chars THEN SP ELSE s[i]]

normalizeHeader(raw) == ToLowerCase(Remove(Trim(raw), {BOM, CTRL1, CTRL2}))

normalizeCell(raw) == Trim(Blank(raw, {BOM, CTRL1, CTRL2}))

IndexOf(seq, x) ==
    IF \E i \in 1..Len(seq) : seq[i] = x
    THEN CHOOSE i \in 1..Len(seq) : seq[i] = x /\ \A j \in 1..(i - 1) : seq[j] # x
    ELSE 0

\* lines[0].trim().replace(...).split('\t'), then normalizeHeader on each.
HeaderColumns(line0) ==
    LET rawHeader == Split(Remove(Trim(line0), {BOM, CTRL1, CTRL2}), TAB)
    IN  [i \in 1..Len(rawHeader) |-> normalizeHeader(rawHeader[i])]

\* const line = lines[i].trim(); ... line.split('\t').map(normalizeCell)
LineCells(rawLine) ==
    LET ele == Split(Trim(rawLine), TAB)
    IN  [i \in 1..Len(ele) |-> normalizeCell(ele[i])]

\* The loop over lines[1..]: a blank line is skipped, a line whose cell
\* count is not the header's is not pushed.  i is the 1-based position in
\* lines (the header is line 1); each kept row remembers the line it is from.
RECURSIVE DecodeLoop(_, _, _)
DecodeLoop(lines, ncols, i) ==
    IF i > Len(lines) THEN <<>>
    ELSE IF Trim(lines[i]) = <<>> THEN DecodeLoop(lines, ncols, i + 1)
    ELSE IF ncols = Len(LineCells(lines[i]))
         THEN <<[line |-> i, cells |-> LineCells(lines[i])]>>
                  \o DecodeLoop(lines, ncols, i + 1)
    ELSE DecodeLoop(lines, ncols, i + 1)

\* if (!columns.includes('tf')) { columns = [...columns, 'tf']; row.push('') }
HasTf(cols) == \E i \in 1..Len(cols) : cols[i] = <<"tf">>

WithTfColumn(cols) == IF HasTf(cols) THEN cols ELSE Append(cols, <<"tf">>)

\* The rows left as decoded, whatever the header holds.
WithTfCellNone(cols, cells) == cells

WithTfCell(cols, cells) == IF HasTf(cols) THEN cells ELSE Append(cells, <<>>)

\* The expansion without comment.trim().
ExpandRowUntrimmed(cells, rc) ==
    LET comments == Split(cells[rc], DOLLAR)
    IN  [j \in 1..Len(comments) |-> [cells EXCEPT ![rc] = comments[j]]]

\* One row split on '$': a copy of the row per piece, the piece trimmed.
ExpandRow(cells, rc) ==
    LET comments == Split(cells[rc], DOLLAR)
    IN  [j \in 1..Len(comments) |-> [cells EXCEPT ![rc] = Trim(comments[j])]]

\* The expansion passing every row through as it is.
ExpandRowsUnsplit(data, rc) == data

\* The expansion loop; rc is the 1-based index of raw_comments, 0 if absent.
RECURSIVE ExpandRows(_, _)
ExpandRows(data, rc) ==
    IF data = <<>> THEN <<>>
    ELSE IF rc # 0 THEN ExpandRow(Head(data), rc) \o ExpandRows(Tail(data), rc)
    ELSE <<Head(data)>> \o ExpandRows(Tail(data), rc)

\* Everything processFile computes from the text once file.text() resolved.
ProcessText(f) ==
    LET lines == Split(f.text, NL)
        header == HeaderColumns(lines[1])
        data == DecodeLoop(lines, Len(header), 2)
        cols == WithTfColumn(header)
        rows == [i \in 1..Len(data) |-> WithTfCell(header, data[i].cells)]
        expandedData == ExpandRows(rows, IndexOf(cols, <<"raw_comments">>))
        check == ValidateColumns(cols)
    IN  [lines |-> lines, header |-> header, data |-> data, rows |-> rows,
         check |-> check,
         table |-> [kind |-> "table", sourceFileName |-> f.name,
                    columns |-> cols, rows |-> expandedData]]

RawIdle ==
    /\ file = Null
    /\ processing = FALSE
    /\ reading = Null
    /\ error = Null
    /\ tableData = Null
    /\ tfHint = Null
    /\ decoded = Null
    /\ validationError = Null
    /\ xlsxFile = Null
    /\ xlsxError = Null
    /\ xlsxProcessing = FALSE
    /\ xlsxReading = <<>>
    /\ tableEdits = 0

\* handleFileChange / handleDrop with a .txt file.
HandleFileChange(f) ==
    /\ file' = f
    /\ error' = Null
    /\ tableData' = Null
    /\ decoded' = Null
    /\ UNCHANGED <<processing, reading, tfHint, validationError,
                   xlsxFile, xlsxError, xlsxProcessing, xlsxReading, tableEdits>>

\* processFile up to the await; the button shows when file && !processing
\* && !tableData.
ProcessFileStart ==
    /\ file # Null
    /\ ~processing
    /\ tableData = Null
    /\ processing' = TRUE
    /\ error' = Null
    /\ tfHint' = Null
    /\ reading' = file
    /\ UNCHANGED <<file, tableData, decoded, validationError,
                   xlsxFile, xlsxError, xlsxProcessing, xlsxReading, tableEdits>>

\* processFile from the await on: try body, catch, finally.
ProcessFileFinish ==
    /\ reading # Null
    /\ LET run == ProcessText(reading)
       IN  /\ decoded' = [kind |-> "run", lines |-> run.lines,
                          header |-> run.header, data |-> run.data,
                          rows |-> run.rows]
           /\ IF run.check = Valid
              THEN /\ tableData' = run.table
                   /\ UNCHANGED error
              ELSE /\ error' = run.check
                   /\ tableData' = Null
    /\ processing' = FALSE
    /\ reading' = Null
    /\ UNCHANGED <<file, tfHint, validationError,
                   xlsxFile, xlsxError, xlsxProcessing, xlsxReading, tableEdits>>

----------------------------------------------------------------------------
(* Stage 2: AnnotatedDataProcessor *)

\* JavaScript values of a row's fields: a string, a finite number, a
\* non-finite number (NaN, Infinity), null, undefined (also: no such key).
Str(s) == [kind |-> "str", val |-> s]
Num(n) == [kind |-> "num", val |-> n]
NonFinite == [kind |-> "nonfinite"]
Undefined == [kind |-> "undefined"]

Digit(d) == <<"0", "1", "2", "3", "4", "5", "6", "7", "8", "9">>[d + 1]

RECURSIVE NatToString(_)
NatToString(n) ==
    IF n < 10 THEN <<Digit(n)>>
    ELSE Append(NatToString(n \div 10), Digit(n % 10))

\* String(v)
StringOf(v) ==
    CASE v.kind = "str" -> v.val
      [] v.kind = "num" -> IF v.val < 0 THEN <<"-">> \o NatToString(0 - v.val)
                           ELSE NatToString(v.val)
      [] v.kind = "nonfinite" -> <<"NaN">>
      [] v.kind = "null" -> <<"null">>
      [] v.kind = "undefined" -> <<"undefined">>

\* !v
Falsy(v) ==
    \/ v.kind \in {"undefined", "null", "nonfinite"}
    \/ v.kind = "str" /\ v.val = <<>>
    \/ v.kind = "num" /\ v.val = 0

\* row[k]
Get(row, k) == IF k \in DOMAIN row THEN row[k] ELSE Undefined

\* row[k] = v
Set(row, k, v) == [x \in DOMAIN row \cup {k} |-> IF x = k THEN v ELSE row[x]]

\* normalizeTf: the number returned, or the text the thrown message names.
normalizeTf(v) ==
    IF v.kind \in {"null", "undefined"} THEN [ok |-> TRUE, val |-> Num(0)]
    ELSE IF v.kind \in {"num", "nonfinite"}
         THEN [ok |-> TRUE, val |-> IF v.kind = "num" THEN v ELSE Num(0)]
    ELSE LET s == Trim(StringOf(v))
         IN  IF s = <<>> THEN [ok |-> TRUE, val |-> Num(0)]
             ELSE IF s = <<"0">> THEN [ok |-> TRUE, val |-> Num(0)]
             ELSE IF s = <<"1">> THEN [ok |-> TRUE, val |-> Num(1)]
             ELSE [ok |-> FALSE, shown |-> s]

\* The loop reporting i + 1 for i + 2: the header row is not counted.
RECURSIVE CoerceLoopNoHeader(_, _)
CoerceLoopNoHeader(rows, i) ==
    IF i > Len(rows) THEN [ok |-> TRUE, rows |-> rows]
    ELSE LET r == normalizeTf(Get(rows[i], "tf"))
         IN  IF r.ok
             THEN CoerceLoopNoHeader(
                    [rows EXCEPT ![i] = Set(rows[i], "tf", r.val)], i + 1)
             ELSE [ok |-> FALSE, rows |-> rows, row |-> i, shown |-> r.shown]

\* The loop checking every tf without writing the number back.
RECURSIVE CoerceLoopKeepsRows(_, _)
CoerceLoopKeepsRows(rows, i) ==
    IF i > Len(rows) THEN [ok |-> TRUE, rows |-> rows]
    ELSE LET r == normalizeTf(Get(rows[i], "tf"))
         IN  IF r.ok THEN CoerceLoopKeepsRows(rows, i + 1)
             ELSE [ok |-> FALSE, rows |-> rows, row |-> i + 1, shown |-> r.shown]

\* The loop "row.tf = normalizeTf(row.tf)" from 1-based position i on: the
\* rows as the loop leaves them and, if a call threw, where and with what.
RECURSIVE CoerceLoop(_, _)
CoerceLoop(rows, i) ==
    IF i > Len(rows) THEN [ok |-> TRUE, rows |-> rows]
    ELSE LET r == normalizeTf(Get(rows[i], "tf"))
         IN  IF r.ok
             THEN CoerceLoop([rows EXCEPT ![i] = Set(rows[i], "tf", r.val)], i + 1)
             ELSE [ok |-> FALSE, rows |-> rows, row |-> i + 1, shown |-> r.shown]

\* `${row.sentiment_tag || ''}_${row.opinion || ''}`
OrEmpty(v) == IF Falsy(v) THEN Str(<<>>) ELSE v

GroupKey(row) ==
    StringOf(OrEmpty(Get(row, "sentiment_tag"))) \o <<USCORE>>
        \o StringOf(OrEmpty(Get(row, "opinion")))

\* The grouping loop looking only at the group added last: rows of one
\* key that are not adjacent start a new group.
RECURSIVE GroupLoopAdjacent(_, _, _)
GroupLoopAdjacent(rows, i, groups) ==
    IF i > Len(rows) THEN groups
    ELSE LET key == GroupKey(rows[i])
             n == Len(groups)
         IN  IF n > 0 /\ groups[n].key = key
             THEN GroupLoopAdjacent(rows, i + 1,
                    [groups EXCEPT ![n].members = Append(@, i)])
             ELSE GroupLoopAdjacent(rows, i + 1,
                    Append(groups, [key |-> key, members |-> <<i>>]))

\* The grouping loop putting a new group before the groups it has.
RECURSIVE GroupLoopNewFirst(_, _, _)
GroupLoopNewFirst(rows, i, groups) ==
    IF i > Len(rows) THEN groups
    ELSE LET key == GroupKey(rows[i])
         IN  IF \E g \in 1..Len(groups) : groups[g].key = key
             THEN GroupLoopNewFirst(rows, i + 1,
                    [g \in 1..Len(groups) |->
                        IF groups[g].key = key
                        THEN [groups[g] EXCEPT !.members = Append(@, i)]
                        ELSE groups[g]])
             ELSE GroupLoopNewFirst(rows, i + 1,
                    <<[key |-> key, members |-> <<i>>]>> \o groups)

\* The Map built by the grouping loop, in insertion order: each entry is a
\* key with the 1-based positions of its member rows, in row order.
RECURSIVE GroupLoop(_, _, _)
GroupLoop(rows, i, groups) ==
    IF i > Len(rows) THEN groups
    ELSE LET key == GroupKey(rows[i])
         IN  IF \E g \in 1..Len(groups) : groups[g].key = key
             THEN GroupLoop(rows, i + 1,
                    [g \in 1..Len(groups) |->
                        IF groups[g].key = key
                        THEN [groups[g] EXCEPT !.members = Append(@, i)]
                        ELSE groups[g]])
             ELSE GroupLoop(rows, i + 1,
                    Append(groups, [key |-> key, members |-> <<i>>]))

\* Number(row.tf) || 0
NumberOrZero(v) == IF v.kind = "num" THEN v.val ELSE 0

\* group.reduce((sum, row) => sum + (Number(row.tf) || 0), 0)
RECURSIVE TfSum(_, _)
TfSum(rows, members) ==
    IF members = <<>> THEN 0
    ELSE NumberOrZero(Get(rows[Head(members)], "tf")) + TfSum(rows, Tail(members))

\* comments.filter(comment => String(comment).trim() !== '')
RECURSIVE FilterBlank(_)
FilterBlank(comments) ==
    IF comments = <<>> THEN <<>>
    ELSE IF Trim(StringOf(Head(comments))) # <<>>
         THEN <<Head(comments)>> \o FilterBlank(Tail(comments))
    ELSE FilterBlank(Tail(comments))

\* The merge without the filter: blank values are joined too.
MergeCommentsUnfiltered(rows, members) ==
    LET comments == [m \in 1..Len(members) |->
                        OrEmpty(Get(rows[members[m]], "raw_comments"))]
    IN  Str(Join([k \in 1..Len(comments) |-> StringOf(comments[k])], <<DOLLAR>>))

\* group.map(row => row.raw_comments || '').filter(...).join('$')
MergeComments(rows, members) ==
    LET comments == [m \in 1..Len(members) |->
                        OrEmpty(Get(rows[members[m]], "raw_comments"))]
        kept == FilterBlank(comments)
    IN  Str(Join([k \in 1..Len(kept) |-> StringOf(kept[k])], <<DOLLAR>>))

\* The item carrying the group's tf sum in its tf field.
GroupItemWithSum(rows, members) ==
    Set(Set(rows[Head(members)], "raw_comments", MergeComments(rows, members)),
        "tf", Num(TfSum(rows, members)))

\* const item = { ...group[0] }; item.raw_comments = rawComments
GroupItem(rows, members) ==
    Set(rows[Head(members)], "raw_comments", MergeComments(rows, members))

\* The loop deciding by the first member's tf in place of the sum.
RECURSIVE ItemLoopFirstMember(_, _, _)
ItemLoopFirstMember(rows, groups, g) ==
    IF g > Len(groups) THEN <<>>
    ELSE IF NumberOrZero(Get(rows[Head(groups[g].members)], "tf")) = 0
         THEN ItemLoopFirstMember(rows, groups, g + 1)
    ELSE <<GroupItem(rows, groups[g].members)>>
             \o ItemLoopFirstMember(rows, groups, g + 1)

\* The loop over groups.values(): one item per group whose tfSum is not 0.
RECURSIVE ItemLoop(_, _, _)
ItemLoop(rows, groups, g) ==
    IF g > Len(groups) THEN <<>>
    ELSE IF TfSum(rows, groups[g].members) = 0 THEN ItemLoop(rows, groups, g + 1)
    ELSE <<GroupItem(rows, groups[g].members)>> \o ItemLoop(rows, groups, g + 1)

\* The key 'tf' becomes 'done_time', every other key is kept.
Rename(row) ==
    [k \in {IF x = "tf" THEN "done_time" ELSE x : x \in DOMAIN row} |->
        IF k = "done_time" /\ "tf" \in DOMAIN row THEN row["tf"] ELSE row[k]]

transformAndAggregate(data) ==
    IF Len(data) = 0 THEN [kind |-> "empty", jsonData |-> data]
    ELSE LET coerced == CoerceLoop(data, 1)
         IN  IF ~coerced.ok
             THEN [kind |-> "tf", row |-> coerced.row, shown |-> coerced.shown,
                   jsonData |-> coerced.rows]
             ELSE LET groups == GroupLoop(coerced.rows, 1, <<>>)
                      newData == ItemLoop(coerced.rows, groups, 1)
                  IN  [kind |-> "ok",
                       renamedData |->
                           [k \in 1..Len(newData) |-> Rename(newData[k])],
                       groupCount |-> Len(groups),
                       groups |-> groups,
                       jsonData |-> coerced.rows]

TfIdle ==
    /\ tfIn = Undefined
    /\ tfOut = NotRun

AggIdle ==
    /\ jsonData = <<>>
    /\ aggResult = NotRun
    /\ shuffle = <<>>
    /\ aggShuffled = NotRun

\* App as constructed: step 1, no table.
AppIdle ==
    /\ currentStep = 1
    /\ processedTableData = Null

\* AnnotatedDataProcessor as constructed; no object URL exists yet.
AnnIdle ==
    /\ selectedMethod = "online"
    /\ annFile = Null
    /\ annProcessing = FALSE
    /\ annReading = <<>>
    /\ annError = Null
    /\ result = Null
    /\ downloadUrl = Null
    /\ minted = 0
    /\ revoked = {}

----------------------------------------------------------------------------
(* Stage 1, continued: the spreadsheet upload, the table editor, the tf gate *)

MaxTableEdits == 1
MaxPending == 1

\* A worksheet is its first row and the rows below it, every row as wide as
\* the sheet's range; a cell is a string, a number or Undefined (no cell).
\* cell && cell.v ? String(cell.v).toLowerCase().trim() : ''
ActualColumns(sheet) ==
    [c \in 1..Len(sheet.header) |->
        IF Falsy(sheet.header[c]) THEN <<>>
        ELSE Trim(ToLowerCase(StringOf(sheet.header[c])))]

\* cell && cell.v !== undefined ? String(cell.v).trim() : ''
SheetRowCells(row) ==
    [c \in 1..Len(row) |->
        IF row[c] = Undefined THEN <<>> ELSE Trim(StringOf(row[c]))]

\* The loop over the rows below the header: a row is pushed if some cell of
\* it is not ''.
RECURSIVE SheetRows(_)
SheetRows(rows) ==
    IF rows = <<>> THEN <<>>
    ELSE LET row == SheetRowCells(Head(rows))
         IN  IF \E c \in 1..Len(row) : row[c] # <<>>
             THEN <<row>> \o SheetRows(Tail(rows))
             ELSE SheetRows(Tail(rows))

\* Everything processXlsxFile computes once arrayBuffer() resolved.
ProcessSheet(f) ==
    LET actualColumns == ActualColumns(f.sheet)
    IN  [check |-> ValidateColumns(actualColumns),
         table |-> [kind |-> "table", sourceFileName |-> f.name,
                    columns |-> actualColumns,
                    rows |-> SheetRows(f.sheet.rows)]]

RemoveAt(seq, k) == SubSeq(seq, 1, k - 1) \o SubSeq(seq, k + 1, Len(seq))

\* handleXlsxFileChange with an .xlsx file.
HandleXlsxFileChange(f) ==
    /\ xlsxFile' = f
    /\ xlsxError' = Null
    /\ UNCHANGED <<file, processing, reading, error, tableData, tfHint, decoded,
                   validationError, xlsxProcessing, xlsxReading, tableEdits>>

\* resetXlsxUpload; its button shows with xlsxError.
ResetXlsxUpload ==
    /\ xlsxError # Null
    /\ xlsxFile' = Null
    /\ xlsxError' = Null
    /\ xlsxProcessing' = FALSE
    /\ UNCHANGED <<file, processing, reading, error, tableData, tfHint, decoded,
                   validationError, xlsxReading, tableEdits>>

\* processXlsxFile up to the await; the button shows when xlsxFile &&
\* !xlsxProcessing && !tableData.
ProcessXlsxFileStart ==
    /\ xlsxFile # Null
    /\ ~xlsxProcessing
    /\ tableData = Null
    /\ Len(xlsxReading) < MaxPending
    /\ xlsxProcessing' = TRUE
    /\ xlsxError' = Null
    /\ xlsxReading' = Append(xlsxReading, xlsxFile)
    /\ UNCHANGED <<file, processing, reading, error, tableData, tfHint, decoded,
                   validationError, xlsxFile, tableEdits>>

\* processXlsxFile from the await on, for the k-th awaited read.
ProcessXlsxFileFinish(k) ==
    /\ k \in 1..Len(xlsxReading)
    /\ LET run == ProcessSheet(xlsxReading[k])
       IN  IF run.check = Valid
           THEN /\ tableData' = run.table
                /\ UNCHANGED xlsxError
           ELSE /\ xlsxError' = run.check
                /\ UNCHANGED tableData
    /\ xlsxProcessing' = FALSE
    /\ xlsxReading' = RemoveAt(xlsxReading, k)
    /\ UNCHANGED <<file, processing, reading, error, tfHint, decoded,
                   validationError, xlsxFile, tableEdits>>

\* reset; its buttons show beside the selected file, with the error and
\* under the table.  processing is not among the states it sets.
Reset ==
    /\ file # Null \/ error # Null \/ tableData # Null
    /\ file' = Null
    /\ error' = Null
    /\ tableData' = Null
    /\ tfHint' = Null
    /\ validationError' = Null
    /\ xlsxFile' = Null
    /\ xlsxError' = Null
    /\ xlsxProcessing' = FALSE
    /\ decoded' = Null
    /\ UNCHANGED <<processing, reading, xlsxReading, tableEdits>>

TfHintText == [kind |-> "tfHint"]

\* The updater pushing v onto row i in place of setting its tf cell.
SetTfCellPushed(prev, i, v) ==
    IF i \notin 1..Len(prev.rows) THEN prev
    ELSE [prev EXCEPT !.rows[i] = Append(@, v)]

\* The updater of updateTf: prev with the tf cell of row i set to v.
SetTfCell(prev, i, v) ==
    LET tfColumnIndex == IndexOf(prev.columns, <<"tf">>)
    IN  IF tfColumnIndex = 0 THEN prev
        ELSE IF i \notin 1..Len(prev.rows) THEN prev
        ELSE [prev EXCEPT !.rows[i][tfColumnIndex] = v]

\* The test letting every input of at most one character through.
TfInputAllowedShort(v) == Len(v) <= 1

\* The test of updateTf on the trimmed input.
TfInputAllowed(v) == v = <<>> \/ v = <<"0">> \/ v = <<"1">>

\* updateTf(globalRowIndex, nextValue), i the 1-based row.
UpdateTf(i, nextValue) ==
    /\ tableData # Null
    /\ LET v == Trim(nextValue)
       IN  IF ~TfInputAllowed(v)
           THEN /\ tfHint' = TfHintText
                /\ UNCHANGED <<tableData, validationError, tableEdits>>
           ELSE /\ tableEdits < MaxTableEdits
                /\ tfHint' = Null
                /\ validationError' = Null
                /\ tableData' = SetTfCell(tableData, i, v)
                /\ tableEdits' = tableEdits + 1
    /\ UNCHANGED <<file, processing, reading, error, decoded,
                   xlsxFile, xlsxError, xlsxProcessing, xlsxReading>>

\* The updater with splice(globalRowIndex) for splice(globalRowIndex, 1):
\* the rows from i on are removed.
DeleteRowFrom(prev, i) ==
    IF i \notin 1..Len(prev.rows) THEN prev
    ELSE [prev EXCEPT !.rows = SubSeq(@, 1, i - 1)]

\* The updater of deleteRow: prev without row i, prev for an index that is
\* out of range.
DeleteRowAt(prev, i) ==
    IF i \notin 1..Len(prev.rows) THEN prev
    ELSE [prev EXCEPT !.rows = RemoveAt(@, i)]

\* deleteRow(globalRowIndex), i the 1-based row.
DeleteRow(i) ==
    /\ tableData # Null
    /\ tableEdits < MaxTableEdits
    /\ tableEdits' = tableEdits + 1
    /\ validationError' = Null
    /\ tableData' = DeleteRowAt(tableData, i)
    /\ UNCHANGED <<file, processing, reading, error, tfHint, decoded,
                   xlsxFile, xlsxError, xlsxProcessing, xlsxReading>>

\* emptyRows.slice(0, 10)
DisplayLimit == 10

\* The loop of validateTfColumn from 1-based row i on: the numbers of the
\* rows whose trimmed tf cell is neither '0' nor '1'.
RECURSIVE EmptyRows(_, _, _)
EmptyRows(rows, tfColumnIndex, i) ==
    IF i > Len(rows) THEN <<>>
    ELSE LET tfValue == Trim(rows[i][tfColumnIndex])
         IN  IF tfValue # <<"0">> /\ tfValue # <<"1">>
             THEN <<i>> \o EmptyRows(rows, tfColumnIndex, i + 1)
             ELSE EmptyRows(rows, tfColumnIndex, i + 1)

\* The report with the last DisplayLimit rows in place of the first.
TfReportLast(emptyRows) ==
    LET n == Len(emptyRows)
        displayRows == SubSeq(emptyRows, IF n > DisplayLimit
                                           THEN n - DisplayLimit + 1 ELSE 1, n)
        moreCount == n - Len(displayRows)
    IN  [kind |-> "tfReport", displayRows |-> displayRows,
         showsMore |-> moreCount > 0, moreCount |-> moreCount]

\* The message built from emptyRows: the rows listed, and whether and with
\* which count the "and N more" sentence is added.
TfReport(emptyRows) ==
    LET displayRows == SubSeq(emptyRows, 1,
                              IF Len(emptyRows) < DisplayLimit
                              THEN Len(emptyRows) ELSE DisplayLimit)
        moreCount == Len(emptyRows) - Len(displayRows)
    IN  [kind |-> "tfReport", displayRows |-> displayRows,
         showsMore |-> moreCount > 0, moreCount |-> moreCount]

\* The gate letting an empty tf cell through.
validateTfColumnLenient(table) ==
    IF table = Null \/ IndexOf(table.columns, <<"tf">>) = 0
    THEN [valid |-> FALSE, message |-> [kind |-> "noTf"]]
    ELSE LET all == EmptyRows(table.rows, IndexOf(table.columns, <<"tf">>), 1)
             bad == {k \in 1..Len(all) :
                        table.rows[all[k]][IndexOf(table.columns, <<"tf">>)] # <<>>}
         IN  IF bad # {}
             THEN [valid |-> FALSE, message |-> TfReport(all)]
             ELSE [valid |-> TRUE, message |-> <<>>]

validateTfColumn(table) ==
    IF table = Null \/ IndexOf(table.columns, <<"tf">>) = 0
    THEN [valid |-> FALSE, message |-> [kind |-> "noTf"]]
    ELSE LET emptyRows ==
                 EmptyRows(table.rows, IndexOf(table.columns, <<"tf">>), 1)
         IN  IF Len(emptyRows) > 0
             THEN [valid |-> FALSE, message |-> TfReport(emptyRows)]
             ELSE [valid |-> TRUE, message |-> <<>>]

----------------------------------------------------------------------------
(* Stage 2, continued: the component around transformAndAggregate *)

MaxUrls == 2

Url(n) == [kind |-> "url", id |-> n]

\* The key a header cell gives the objects of sheet_to_json: the cell's text
\* as it stands in the sheet (the header cells used here are one token).
RECURSIVE KeyCat(_)
KeyCat(s) == IF Len(s) = 0 THEN "" ELSE s[1] \o KeyCat(Tail(s))

KeyText(cell) == KeyCat(StringOf(cell))

\* One row of XLSX.utils.sheet_to_json(worksheet): a key per header cell
\* whose cell in the row exists.
SheetObject(header, row) ==
    [k \in {KeyText(header[c]) : c \in {d \in 1..Len(header) : row[d] # Undefined}} |->
        row[CHOOSE c \in 1..Len(header) : KeyText(header[c]) = k]]

\* sheet_to_json: rows without any cell give no object.
RECURSIVE SheetToJson(_, _)
SheetToJson(header, rows) ==
    IF rows = <<>> THEN <<>>
    ELSE IF \A c \in 1..Len(Head(rows)) : Head(rows)[c] = Undefined
         THEN SheetToJson(header, Tail(rows))
    ELSE <<SheetObject(header, Head(rows))>> \o SheetToJson(header, Tail(rows))

\* t.rows.map(row => { obj[columns[i]] = row[i] }): columns checked before,
\* so each is one required name.
RowObject(cols, row) ==
    [k \in {cols[c][1] : c \in 1..Len(cols)} |->
        Str(row[CHOOSE c \in 1..Len(cols) :
                   cols[c][1] = k /\ \A d \in (c + 1)..Len(cols) : cols[d][1] # k])]

\* What a run of processFromInputTable or processFromFile ends with: the
\* error thrown, or the result and the rows handed to transformAndAggregate
\* as it left them.
Outcome(check, rows, emptyKind) ==
    IF check # Valid THEN [ok |-> FALSE, error |-> check, jsonData |-> <<>>,
                           agg |-> NotRun]
    ELSE IF emptyKind = "emptySheet" /\ Len(rows) = 0
         THEN [ok |-> FALSE, error |-> [kind |-> "emptySheet"],
               jsonData |-> rows, agg |-> NotRun]
    ELSE LET agg == transformAndAggregate(rows)
         IN  IF agg.kind = "ok"
             THEN [ok |-> TRUE, jsonData |-> rows, agg |-> agg,
                   result |-> [kind |-> "result",
                               rowCount |-> Len(agg.renamedData),
                               groupCount |-> agg.groupCount]]
             ELSE [ok |-> FALSE, jsonData |-> rows, agg |-> agg,
                   error |-> IF agg.kind = "empty" THEN [kind |-> "empty"]
                             ELSE [kind |-> "tf", row |-> agg.row,
                                   shown |-> agg.shown]]

processFromInputTable(t) ==
    LET cols == [c \in 1..Len(t.columns) |-> Trim(ToLowerCase(t.columns[c]))]
        check == ValidateColumns(cols)
    IN  Outcome(check,
                IF check = Valid
                THEN [i \in 1..Len(t.rows) |-> RowObject(cols, t.rows[i])]
                ELSE <<>>,
                "none")

processFromFile(f) ==
    LET check == ValidateColumns(ActualColumns(f.sheet))
    IN  Outcome(check,
                IF check = Valid THEN SheetToJson(f.sheet.header, f.sheet.rows)
                ELSE <<>>,
                "emptySheet")

\* setDownload(URL.createObjectURL(blob), name): the updater revokes the
\* URL held before, and so does the cleanup of the effect on downloadUrl.
SetDownload ==
    /\ minted' = minted + 1
    /\ downloadUrl' = Url(minted + 1)
    /\ revoked' = IF downloadUrl # Null THEN revoked \cup {downloadUrl} ELSE revoked

\* The states of the component when it is not mounted or just mounted.
AnnFresh ==
    /\ annFile' = Null
    /\ annProcessing' = FALSE
    /\ annError' = Null
    /\ result' = Null
    /\ downloadUrl' = Null

\* Unmounting: the cleanup of the effect on downloadUrl revokes it; reads
\* still awaited go on without their component.
AnnUnmount ==
    /\ AnnFresh
    /\ revoked' = IF downloadUrl # Null THEN revoked \cup {downloadUrl} ELSE revoked
    /\ annReading' = [k \in 1..Len(annReading) |-> [annReading[k] EXCEPT !.alive = FALSE]]
    /\ UNCHANGED minted

\* The states of RawDataProcessor when it is mounted anew; the reads it
\* awaited end without a component to set.
RawFresh ==
    /\ file' = Null
    /\ processing' = FALSE
    /\ reading' = Null
    /\ error' = Null
    /\ tableData' = Null
    /\ tfHint' = Null
    /\ validationError' = Null
    /\ xlsxFile' = Null
    /\ xlsxError' = Null
    /\ xlsxProcessing' = FALSE
    /\ xlsxReading' = <<>>
    /\ UNCHANGED tableEdits

\* handleFileChange / handleDrop of stage 2 with an .xlsx file; the card
\* holding the inputs shows when selectedMethod is 'offline'.
AnnHandleFileChange(f) ==
    /\ currentStep = 2
    /\ selectedMethod = "offline"
    /\ annFile' = f
    /\ annError' = Null
    /\ result' = Null
    /\ UNCHANGED <<selectedMethod, annProcessing, annReading, downloadUrl,
                   minted, revoked>>
    /\ UNCHANGED <<valVars, rawVars, tfVars, aggVars, appVars>>

\* processFile of stage 2 without a file: processFromInputTable runs to its
\* end without a suspension.
AnnProcessInputTable ==
    /\ currentStep = 2
    /\ selectedMethod = "online"
    /\ processedTableData # Null
    /\ ~annProcessing
    /\ result = Null
    /\ annFile = Null
    /\ minted + Len(annReading) < MaxUrls
    /\ LET run == processFromInputTable(processedTableData)
       IN  /\ jsonData' = run.jsonData
           /\ aggResult' = run.agg
           /\ IF run.ok
              THEN /\ result' = run.result
                   /\ annError' = Null
                   /\ SetDownload
              ELSE /\ result' = Null
                   /\ annError' = run.error
                   /\ UNCHANGED <<downloadUrl, minted, revoked>>
    /\ annProcessing' = FALSE
    /\ UNCHANGED <<selectedMethod, annFile, annReading, shuffle, aggShuffled>>
    /\ UNCHANGED <<valVars, rawVars, tfVars, appVars>>

\* processFile of stage 2 with a file, up to the await in processFromFile.
AnnProcessFileStart ==
    /\ currentStep = 2
    /\ selectedMethod = "offline"
    /\ annFile # Null
    /\ ~annProcessing
    /\ result = Null
    /\ Len(annReading) < MaxPending
    /\ minted + Len(annReading) < MaxUrls
    /\ annProcessing' = TRUE
    /\ annError' = Null
    /\ result' = Null
    /\ annReading' = Append(annReading, [file |-> annFile, alive |-> TRUE])
    /\ UNCHANGED <<selectedMethod, annFile, downloadUrl, minted, revoked>>
    /\ UNCHANGED <<valVars, rawVars, tfVars, aggVars, appVars>>

\* processFromFile from the await on, for the k-th awaited read, then the
\* catch and finally of processFile.  Without its component the run still
\* creates its object URL; the states it sets are gone.
AnnProcessFileFinish(k) ==
    /\ k \in 1..Len(annReading)
    /\ LET run == processFromFile(annReading[k].file)
       IN  /\ jsonData' = run.jsonData
           /\ aggResult' = run.agg
           /\ IF annReading[k].alive
              THEN /\ annProcessing' = FALSE
                   /\ IF run.ok
                      THEN /\ result' = run.result
                           /\ SetDownload
                           /\ UNCHANGED annError
                      ELSE /\ annError' = run.error
                           /\ UNCHANGED <<result, downloadUrl, minted, revoked>>
              ELSE /\ minted' = IF run.ok THEN minted + 1 ELSE minted
                   /\ UNCHANGED <<annProcessing, result, annError, downloadUrl,
                                  revoked>>
    /\ annReading' = RemoveAt(annReading, k)
    /\ UNCHANGED <<selectedMethod, annFile, shuffle, aggShuffled>>
    /\ UNCHANGED <<valVars, rawVars, tfVars, appVars>>

\* reset of stage 2; its buttons show with the error and beside the file.
AnnReset ==
    /\ currentStep = 2
    /\ annError # Null \/ (selectedMethod = "offline" /\ annFile # Null)
    /\ annFile' = Null
    /\ result' = Null
    /\ annError' = Null
    /\ annProcessing' = FALSE
    /\ revoked' = IF downloadUrl # Null THEN revoked \cup {downloadUrl} ELSE revoked
    /\ downloadUrl' = Null
    /\ UNCHANGED <<selectedMethod, annReading, minted>>
    /\ UNCHANGED <<valVars, rawVars, tfVars, aggVars, appVars>>

----------------------------------------------------------------------------
(* App: the two steps *)

\* A stage-1 handler run while step 1 is shown, followed by the effect that
\* hands tableData to onDataChange (setProcessedTableData).
AtStep1(handler) ==
    /\ currentStep = 1
    /\ handler
    /\ processedTableData' = tableData'
    /\ UNCHANGED <<currentStep, valVars, tfVars, aggVars, annVars>>

\* handleGoToNext; on a valid table onGoToNext is handleDataProcessed, which
\* keeps the table and shows step 2: RawDataProcessor is unmounted and
\* AnnotatedDataProcessor mounted with the preferred method 'online'.
HandleGoToNext ==
    /\ currentStep = 1
    /\ tableData # Null
    /\ LET validation == validateTfColumn(tableData)
       IN  IF ~validation.valid
           THEN /\ validationError' = validation.message
                /\ UNCHANGED <<file, processing, reading, error, tableData,
                               tfHint, decoded, xlsxFile, xlsxError,
                               xlsxProcessing, xlsxReading, tableEdits>>
                /\ UNCHANGED <<appVars, annVars>>
           ELSE /\ processedTableData' = tableData
                /\ currentStep' = 2
                /\ RawFresh
                /\ UNCHANGED decoded
                /\ selectedMethod' = "online"
                /\ AnnFresh
                /\ UNCHANGED <<annReading, minted, revoked>>
    /\ UNCHANGED <<valVars, tfVars, aggVars>>

\* onGoToStep1 = handleBackToStep1; its buttons show in the card of the
\* handed table and, while nothing runs and no result shows, at the bottom.
\* RawDataProcessor is mounted anew and its effect hands null to
\* onDataChange.
HandleBackToStep1 ==
    /\ currentStep = 2
    /\ \/ selectedMethod = "online" /\ processedTableData # Null
       \/ ~annProcessing /\ result = Null
    /\ currentStep' = 1
    /\ AnnUnmount
    /\ RawFresh
    /\ decoded' = Null
    /\ processedTableData' = Null
    /\ UNCHANGED selectedMethod
    /\ UNCHANGED <<valVars, tfVars, aggVars>>

\* handleResetConfirm: onResetAll = handleResetAll; the button opening the
\* dialog shows with the result.
HandleResetAll ==
    /\ currentStep = 2
    /\ result # Null
    /\ currentStep' = 1
    /\ processedTableData' = Null
    /\ selectedMethod' = "online"
    /\ AnnUnmount
    /\ RawFresh
    /\ decoded' = Null
    /\ UNCHANGED <<valVars, tfVars, aggVars>>

----------------------------------------------------------------------------
(* Stage-1 decoding and expansion applied to the texts a file can hold *)

MaxLines == 2

X == <<"x">>

\* A data line of n cells: the first, the raw_comments (12th) and the last
\* cell as given, "x" elsewhere.
MkLine(n, first, rc, last) ==
    Join([i \in 1..n |-> IF i = n THEN last
                         ELSE IF i = 1 THEN first
                         ELSE IF i = 12 THEN rc
                         ELSE X], <<TAB>>)

RcPool == { <<"a">>, <<"a", DOLLAR, "b">>,
            <<SP, "a", SP, DOLLAR, DOLLAR, "b", SP>>, <<>> }

LinePool ==
    {MkLine(13, X, rc, <<"1">>) : rc \in RcPool}       \* well shaped
      \cup { MkLine(13, X, <<"a">>, <<>>),             \* 13 cells, tf empty
             MkLine(13, <<>>, <<"a">>, <<"0">>),       \* 13 cells, first empty
             MkLine(14, X, <<"a">>, <<>>),             \* 14 cells, last empty
             MkLine(14, X, <<"a">>, <<"1">>),          \* 14 cells
             MkLine(12, X, <<>>, <<"a", DOLLAR, "b">>),\* 12 cells
             <<SP>>,                                   \* blank
             <<CTRL1, "x">> }                          \* 1 cell

HeaderPool ==
    { Join(REQUIRED_COLUMNS, <<TAB>>),
      Join(SubSeq(REQUIRED_COLUMNS, 1, 12), <<TAB>>),
      <<BOM>> \o Join(SubSeq(REQUIRED_COLUMNS, 1, 11), <<TAB>>)
              \o <<TAB, "RAW_COMMENTS", TAB, SP, "TF", SP>>,
      Join([REQUIRED_COLUMNS EXCEPT ![3] = REQUIRED_COLUMNS[4],
                                    ![4] = REQUIRED_COLUMNS[3]], <<TAB>>) }

LineSeqs == UNION {[1..n -> LinePool] : n \in 0..MaxLines}

FilePool ==
    {[kind |-> "file", name |-> "raw.txt", text |-> Join(<<h>> \o ls, <<NL>>)] :
        h \in HeaderPool, ls \in LineSeqs}

ValIdle ==
    /\ columns = <<>>
    /\ edits = 0
    /\ valResult = NotRun

InitDecode ==
    /\ RawIdle
    /\ AppIdle
    /\ AnnIdle
    /\ ValIdle
    /\ TfIdle
    /\ AggIdle

SelectFirstFile ==
    /\ file = Null
    /\ \E f \in FilePool : HandleFileChange(f)
    /\ UNCHANGED <<valVars, tfVars, aggVars, appVars, annVars>>

NextDecode ==
    \/ SelectFirstFile
    \/ ProcessFileStart /\ UNCHANGED <<valVars, tfVars, aggVars, appVars, annVars>>
    \/ ProcessFileFinish /\ UNCHANGED <<valVars, tfVars, aggVars, appVars, annVars>>

SpecDecode == InitDecode /\ [][NextDecode]_vars

----------------------------------------------------------------------------
(* Claims about stage-1 decoding and expansion *)

\* C3: a raw data line whose tab-split cell count differs from the header's
\* column count is absent from the decoded table, whatever its first and
\* last cells are, and its absence is not an error.
C3_ShapeDrop ==
    decoded # Null =>
        \A i \in 2..Len(decoded.lines) :
            Len(Split(decoded.lines[i], TAB)) # Len(decoded.header) =>
                /\ \A k \in 1..Len(decoded.data) : decoded.data[k].line # i
                /\ (ValidateColumns(WithTfColumn(decoded.header)) = Valid
                        => error = Null)

\* The positions of '$' in s, and the j-th piece between them.
DollarPos(s) == {k \in 1..Len(s) : s[k] = DOLLAR}

NthDollar(s, j) ==
    CHOOSE p \in DollarPos(s) : Cardinality({q \in DollarPos(s) : q < p}) = j - 1

PieceAt(s, j) ==
    LET from == IF j = 1 THEN 1 ELSE NthDollar(s, j - 1) + 1
        to == IF j = Cardinality(DollarPos(s)) + 1 THEN Len(s)
              ELSE NthDollar(s, j) - 1
    IN  SubSeq(s, from, to)

PieceCount(s) == Cardinality(DollarPos(s)) + 1

RECURSIVE PiecesBefore(_, _)
PiecesBefore(rows, i) ==
    IF i <= 1 THEN 0
    ELSE PiecesBefore(rows, i - 1) + PieceCount(rows[i - 1][12])

\* C4: input row i, whose raw_comments cell has m pieces, gives exactly m
\* consecutive output rows in piece order, each the row with that cell
\* replaced by the trimmed piece, after all rows of the inputs before it;
\* a cell without '$' gives one row; the output is no shorter than the input.
C4_Expansion ==
    (decoded # Null /\ tableData # Null) =>
        LET rows == decoded.rows
            out == tableData.rows
        IN  /\ Len(out) = PiecesBefore(rows, Len(rows) + 1)
            /\ Len(out) >= Len(rows)
            /\ \A i \in 1..Len(rows) :
                 /\ \A j \in 1..PieceCount(rows[i][12]) :
                      out[PiecesBefore(rows, i) + j] =
                          [rows[i] EXCEPT ![12] = Trim(PieceAt(rows[i][12], j))]
                 /\ (DollarPos(rows[i][12]) = {} =>
                        out[PiecesBefore(rows, i) + 1] =
                            [rows[i] EXCEPT ![12] = Trim(rows[i][12])])

\* A three-piece row followed by another row, both in the committed table.
C4_Witness ==
    /\ decoded # Null
    /\ tableData # Null
    /\ Len(decoded.rows) = 2
    /\ PieceCount(decoded.rows[1][12]) = 3
    /\ Len(tableData.rows) = 4
    /\ tableData.rows[3][12] = <<"b">>

----------------------------------------------------------------------------
(* normalizeTf applied to the values a tf cell can hold *)

MaxTfLen == 3

TfChars == {"0", "1", SP, "x"}

TfStrings == UNION {[1..n -> TfChars] : n \in 0..MaxTfLen}

\* A cell read from a spreadsheet is a string or a number; a row built from
\* the stage-1 table holds strings; an empty cell leaves no key.
TfInputs ==
    {Str(s) : s \in TfStrings} \cup {Num(n) : n \in -1..2}
        \cup {Null, Undefined}

InitCoerce ==
    /\ RawIdle
    /\ AppIdle
    /\ AnnIdle
    /\ ValIdle
    /\ AggIdle
    /\ tfIn \in TfInputs
    /\ tfOut = NotRun

RunNormalizeTf ==
    /\ tfOut = NotRun
    /\ tfOut' = normalizeTf(tfIn)
    /\ UNCHANGED <<tfIn, valVars, rawVars, aggVars, appVars, annVars>>

NextCoerce == RunNormalizeTf

SpecCoerce == InitCoerce /\ [][NextCoerce]_vars

\* C5: normalizeTf returns 0 or 1 for every input it accepts; it accepts
\* null, undefined, a blank string, the numbers 0 and 1 and the strings "0"
\* and "1" (surrounding blanks aside), and rejects every other value.
C5_FlagRange ==
    tfOut # NotRun =>
        LET accepted ==
                \/ tfIn \in {Null, Undefined, Num(0), Num(1)}
                \/ tfIn.kind = "str" /\ Trim(tfIn.val) \in {<<>>, <<"0">>, <<"1">>}
        IN  /\ tfOut.ok <=> accepted
            /\ tfOut.ok => tfOut.val \in {Num(0), Num(1)}

----------------------------------------------------------------------------
(* transformAndAggregate applied to the rows a sheet or a table can hold *)

MaxRows == 3

\* (sentiment_tag, opinion) pairs; the last two differ and share the
\* concatenated key.
KeyPool ==
    { << <<"a">>, <<"a">> >>,
      << <<"a", USCORE>>, <<"a">> >>,
      << <<"a">>, <<USCORE, "a">> >> }

\* A row object; a field whose value is Undefined has no key.
MkRow(pair, tf, rc) ==
    LET all == [k \in {"sentiment_tag", "opinion", "tf", "raw_comments"} |->
                   CASE k = "sentiment_tag" -> Str(pair[1])
                     [] k = "opinion" -> Str(pair[2])
                     [] k = "tf" -> tf
                     [] k = "raw_comments" -> rc]
    IN  [k \in {x \in DOMAIN all : all[x] # Undefined} |-> all[k]]

TfPool ==
    { Str(<<"1">>), Str(<<"0">>), Str(<<>>), Str(<<SP, "1">>),
      Str(<<SP, "n", "o">>), Num(-1), Undefined }

RowPool == {MkRow(p, tf, Str(<<"a">>)) : p \in KeyPool, tf \in TfPool}

RowSeqs(pool) == UNION {[1..n -> pool] : n \in 0..MaxRows}

InitAggregate ==
    /\ RawIdle
    /\ AppIdle
    /\ AnnIdle
    /\ ValIdle
    /\ TfIdle
    /\ jsonData \in RowSeqs(RowPool)
    /\ aggResult = NotRun
    /\ shuffle = <<>>
    /\ aggShuffled = NotRun

\* One call of transformAndAggregate on the rows.
RunAggregate ==
    /\ aggResult = NotRun
    /\ aggResult' = transformAndAggregate(jsonData)
    /\ UNCHANGED <<jsonData, shuffle, aggShuffled, valVars, rawVars, tfVars,
                   appVars, annVars>>

NextAggregate == RunAggregate

SpecAggregate == InitAggregate /\ [][NextAggregate]_vars

\* Rows whose raw_comments vary: plain, empty, blank, padded, missing.
CommentPool ==
    { Str(<<"a">>), Str(<<>>), Str(<<SP>>), Str(<<SP, "b", SP>>), Undefined }

MergeRowPool ==
    {MkRow(<< <<"a">>, <<"a">> >>, tf, rc) :
        tf \in {Str(<<"1">>), Str(<<"0">>)}, rc \in CommentPool}

InitMerge ==
    /\ RawIdle
    /\ AppIdle
    /\ AnnIdle
    /\ ValIdle
    /\ TfIdle
    /\ jsonData \in RowSeqs(MergeRowPool)
    /\ aggResult = NotRun
    /\ shuffle = <<>>
    /\ aggShuffled = NotRun

SpecMerge == InitMerge /\ [][NextAggregate]_vars

\* The same rows handed over in another order.
Orders(n) == {p \in [1..n -> 1..n] : \A i, j \in 1..n : p[i] = p[j] => i = j}

Permute(rows, p) == [i \in 1..Len(rows) |-> rows[p[i]]]

ShuffleRowPool ==
    {MkRow(p, tf, Str(<<"a">>)) :
        p \in KeyPool, tf \in {Str(<<"1">>), Str(<<"0">>)}}

InitShuffle ==
    /\ RawIdle
    /\ AppIdle
    /\ AnnIdle
    /\ ValIdle
    /\ TfIdle
    /\ jsonData \in RowSeqs(ShuffleRowPool)
    /\ aggResult = NotRun
    /\ shuffle = <<>>
    /\ aggShuffled = NotRun

\* A second call of transformAndAggregate, on a permutation of the rows.
RunShuffled(p) ==
    /\ aggResult # NotRun
    /\ aggShuffled = NotRun
    /\ shuffle' = p
    /\ aggShuffled' = transformAndAggregate(Permute(jsonData, p))
    /\ UNCHANGED <<jsonData, aggResult, valVars, rawVars, tfVars, appVars, annVars>>

NextShuffle ==
    \/ RunAggregate
    \/ \E p \in Orders(Len(jsonData)) : RunShuffled(p)

SpecShuffle == InitShuffle /\ [][NextShuffle]_vars

----------------------------------------------------------------------------
(* Claims about the aggregation *)

\* The flag a tf cell stands for, read off the cell as it was handed over.
Coerced(v) ==
    CASE v.kind = "num" -> v.val
      [] v.kind = "str" -> IF Trim(v.val) = <<"1">> THEN 1 ELSE 0
      [] OTHER -> 0

\* A tf cell the coercer has no number for.
Uncoercible(v) == v.kind = "str" /\ Trim(v.val) \notin {<<>>, <<"0">>, <<"1">>}

InvalidRows == {i \in 1..Len(jsonData) : Uncoercible(Get(jsonData[i], "tf"))}

Least(S) == CHOOSE i \in S : \A j \in S : i <= j

\* The rows sharing row i's group, and the first row of each group.
GroupOf(rows, i) == {j \in 1..Len(rows) : GroupKey(rows[j]) = GroupKey(rows[i])}

Leaders(rows) == {i \in 1..Len(rows) : i = Least(GroupOf(rows, i))}

RECURSIVE SumCoerced(_, _)
SumCoerced(rows, S) ==
    IF S = {} THEN 0
    ELSE LET i == Least(S)
         IN  Coerced(Get(rows[i], "tf")) + SumCoerced(rows, S \ {i})

\* The output records made from the group of row i.
RecordsOf(rows, out, i) == {k \in 1..Len(out) : GroupKey(out[k]) = GroupKey(rows[i])}

C7_ZeroSumFilter ==
    (aggResult # NotRun /\ aggResult.kind = "ok") =>
        LET out == aggResult.renamedData
            live == {i \in Leaders(jsonData) :
                        SumCoerced(jsonData, GroupOf(jsonData, i)) # 0}
        IN  /\ Len(out) = Cardinality(live)
            /\ \A i \in Leaders(jsonData) :
                 Cardinality(RecordsOf(jsonData, out, i)) =
                     IF i \in live THEN 1 ELSE 0

\* A discarded group beside a surviving group of a single row with tf 1.
C7_Witness ==
    /\ aggResult # NotRun
    /\ aggResult.kind = "ok"
    /\ Cardinality(Leaders(jsonData)) = 2
    /\ Len(aggResult.renamedData) = 1
    /\ \E i \in Leaders(jsonData) :
         /\ GroupOf(jsonData, i) = {i}
         /\ Get(jsonData[i], "tf") = Str(<<"1">>)
         /\ RecordsOf(jsonData, aggResult.renamedData, i) # {}

\* The members' raw_comments that are not blank, in member order, each
\* passed through f, joined with '$'.
RECURSIVE JoinKept(_, _, _)
JoinKept(rows, S, trimmed) ==
    IF S = {} THEN <<>>
    ELSE LET i == Least(S)
             c == StringOf(OrEmpty(Get(rows[i], "raw_comments")))
             rest == JoinKept(rows, S \ {i}, trimmed)
         IN  IF Trim(c) = <<>> THEN rest
             ELSE (IF trimmed THEN Trim(c) ELSE c)
                      \o (IF rest = <<>> THEN <<>> ELSE <<DOLLAR>> \o rest)

\* C8 as claimed: the merged raw_comments of a surviving group is its
\* members' values, blank ones dropped, the others trimmed, joined by '$'.
C8_MergeTrimmed ==
    (aggResult # NotRun /\ aggResult.kind = "ok") =>
        \A i \in Leaders(jsonData) :
            \A k \in RecordsOf(jsonData, aggResult.renamedData, i) :
                aggResult.renamedData[k]["raw_comments"] =
                    Str(JoinKept(jsonData, GroupOf(jsonData, i), TRUE))

\* C8 as the code has it: blank values are dropped, the others are joined
\* by '$' in member order as they are, not trimmed.
C8_MergeAsIs ==
    (aggResult # NotRun /\ aggResult.kind = "ok") =>
        \A i \in Leaders(jsonData) :
            \A k \in RecordsOf(jsonData, aggResult.renamedData, i) :
                aggResult.renamedData[k]["raw_comments"] =
                    Str(JoinKept(jsonData, GroupOf(jsonData, i), FALSE))

\* Members "a", "", " b " merged into "a$ b ".
C8_Witness ==
    /\ aggResult # NotRun
    /\ aggResult.kind = "ok"
    /\ Len(jsonData) = 3
    /\ [i \in 1..3 |-> Get(jsonData[i], "raw_comments")] =
           <<Str(<<"a">>), Str(<<>>), Str(<<SP, "b", SP>>)>>
    /\ Len(aggResult.renamedData) = 1
    /\ aggResult.renamedData[1]["raw_comments"] =
           Str(<<"a", DOLLAR, SP, "b", SP>>)

\* The first rows of the groups whose coerced tf values do not sum to 0.
Live(rows) == {i \in Leaders(rows) : SumCoerced(rows, GroupOf(rows, i)) # 0}

\* C19: the result has one record per surviving group, the k-th record
\* being that of the k-th surviving group in the order in which the groups
\* first occur in the input; groupCount is the number of groups formed, the
\* discarded ones included; so the number of records is at most groupCount,
\* which is at most the number of input rows.
C19_GroupOrder ==
    (aggResult # NotRun /\ aggResult.kind = "ok") =>
        LET out == aggResult.renamedData
        IN  /\ Len(out) = Cardinality(Live(jsonData))
            /\ \A k \in 1..Len(out) :
                   \E i \in Live(jsonData) :
                       /\ GroupKey(out[k]) = GroupKey(jsonData[i])
                       /\ Cardinality({j \in Live(jsonData) : j < i}) = k - 1
            /\ aggResult.groupCount = Cardinality(Leaders(jsonData))
            /\ Len(out) <= aggResult.groupCount
            /\ aggResult.groupCount <= Len(jsonData)

\* Two surviving groups over three rows, the first group's second member
\* standing after the second group's row.
C19_Witness ==
    /\ aggResult # NotRun
    /\ aggResult.kind = "ok"
    /\ Len(jsonData) = 3
    /\ GroupKey(jsonData[1]) = GroupKey(jsonData[3])
    /\ GroupKey(jsonData[1]) # GroupKey(jsonData[2])
    /\ Len(aggResult.renamedData) = 2
    /\ aggResult.groupCount = 2
    /\ GroupKey(aggResult.renamedData[1]) = GroupKey(jsonData[1])
    /\ GroupKey(aggResult.renamedData[2]) = GroupKey(jsonData[2])

\* The groups of a result as sets of positions in jsonData, given the order
\* p in which the rows were handed over.
Partition(res, p) ==
    {{p[res.groups[g].members[m]] : m \in 1..Len(res.groups[g].members)} :
        g \in 1..Len(res.groups)}

Survivors(res, p) ==
    {{p[res.groups[g].members[m]] : m \in 1..Len(res.groups[g].members)} :
        g \in {h \in 1..Len(res.groups) :
                  TfSum(res.jsonData, res.groups[h].members) # 0}}

Identity(n) == [i \in 1..n |-> i]

\* C9: rows with the same (sentiment_tag, opinion) pair are in one group
\* wherever they stand; handing the rows over in another order gives the
\* same partition into groups and the same surviving groups.
C9_OrderIndependent ==
    /\ (aggResult # NotRun /\ aggResult.kind = "ok") =>
          \A i, j \in 1..Len(jsonData) :
              ( /\ Get(jsonData[i], "sentiment_tag") = Get(jsonData[j], "sentiment_tag")
                /\ Get(jsonData[i], "opinion") = Get(jsonData[j], "opinion") )
              => \E s \in Partition(aggResult, Identity(Len(jsonData))) :
                     {i, j} \subseteq s
    /\ (aggShuffled # NotRun) =>
          /\ aggShuffled.kind = aggResult.kind
          /\ aggResult.kind = "ok" =>
               /\ Partition(aggShuffled, shuffle)
                      = Partition(aggResult, Identity(Len(jsonData)))
               /\ Survivors(aggShuffled, shuffle)
                      = Survivors(aggResult, Identity(Len(jsonData)))
               /\ Cardinality(Survivors(aggShuffled, shuffle))
                      = Len(aggShuffled.renamedData)

\* Three rows in reversed order, two of them in one group that survives.
C9_Witness ==
    /\ aggShuffled # NotRun
    /\ Len(jsonData) = 3
    /\ shuffle = <<3, 2, 1>>
    /\ GroupKey(jsonData[1]) = GroupKey(jsonData[3])
    /\ GroupKey(jsonData[1]) # GroupKey(jsonData[2])
    /\ jsonData[1] # jsonData[3]
    /\ aggShuffled.kind = "ok"
    /\ Len(aggShuffled.renamedData) = 1

\* C10 as claimed: a record has no tf field, and its done_time is what the
\* group's first member held as tf before coercion (compared as written
\* out and trimmed, so that "1", " 1" and 1 agree).
C10_DoneTimeOriginal ==
    (aggResult # NotRun /\ aggResult.kind = "ok") =>
        \A i \in Leaders(jsonData) :
            \A k \in RecordsOf(jsonData, aggResult.renamedData, i) :
                LET rec == aggResult.renamedData[k]
                IN  /\ "tf" \notin DOMAIN rec
                    /\ "done_time" \in DOMAIN rec
                    /\ StringOf(rec["done_time"])
                           = Trim(StringOf(OrEmpty(Get(jsonData[i], "tf"))))

\* C10 as the code has it: a record has no tf field, and its done_time is
\* the number its group's first member's tf was coerced to, whatever the
\* group's sum is.
C10_DoneTimeCoerced ==
    (aggResult # NotRun /\ aggResult.kind = "ok") =>
        \A i \in Leaders(jsonData) :
            \A k \in RecordsOf(jsonData, aggResult.renamedData, i) :
                LET rec == aggResult.renamedData[k]
                IN  /\ "tf" \notin DOMAIN rec
                    /\ "done_time" \in DOMAIN rec
                    /\ rec["done_time"] = Num(Coerced(Get(jsonData[i], "tf")))

\* A surviving group whose first member has tf 0 and whose second has tf 1:
\* done_time is 0, the sum is 1.
C10_Witness ==
    /\ aggResult # NotRun
    /\ aggResult.kind = "ok"
    /\ Len(jsonData) = 2
    /\ Get(jsonData[1], "tf") = Str(<<"0">>)
    /\ Get(jsonData[2], "tf") = Str(<<"1">>)
    /\ Len(aggResult.renamedData) = 1
    /\ aggResult.renamedData[1]["done_time"] = Num(0)

----------------------------------------------------------------------------
(* The application: upload, edit, gate, aggregation, back and again *)

Pos == <<"p", "o", "s">>
Good == <<"g", "o", "o", "d">>

\* A data line of the 13 required columns.
DataLine(st, op, rc, tf) ==
    Join([i \in 1..13 |-> CASE i = 5 -> st
                            [] i = 9 -> op
                            [] i = 12 -> rc
                            [] i = 13 -> tf
                            [] OTHER -> X], <<TAB>>)

TextFile(lines) == [kind |-> "file", name |-> "raw.txt", text |-> Join(lines, <<NL>>)]

\* Two rows of one group, tf "1" and "0", raw_comments "x$y" and "z".
ScenarioFile ==
    TextFile(<< Join(REQUIRED_COLUMNS, <<TAB>>),
                DataLine(Pos, Good, <<"x", DOLLAR, "y">>, <<"1">>),
                DataLine(Pos, Good, <<"z">>, <<"0">>) >>)

\* No tf column and one row of two comments; a header and nothing else; a
\* header with two names swapped.
NoTfFile ==
    TextFile(<< Join(SubSeq(REQUIRED_COLUMNS, 1, 12), <<TAB>>),
                MkLine(12, X, <<>>, <<"a">>) >>)

HeaderOnlyFile == TextFile(<< Join(REQUIRED_COLUMNS, <<TAB>>) >>)

SwappedFile ==
    TextFile(<< Join([REQUIRED_COLUMNS EXCEPT ![3] = REQUIRED_COLUMNS[4],
                                              ![4] = REQUIRED_COLUMNS[3]], <<TAB>>),
                DataLine(Pos, Good, <<"z">>, <<"1">>) >>)

AppFilePool == {NoTfFile}

UploadFilePool == {HeaderOnlyFile, SwappedFile}

\* A sheet row of 13 cells.
SheetRow(st, rc, tf) ==
    [i \in 1..13 |-> CASE i = 5 -> st
                       [] i = 12 -> rc
                       [] i = 13 -> tf
                       [] OTHER -> Str(X)]

SheetFile(header, rows) ==
    [kind |-> "xlsx", name |-> "done.xlsx", sheet |-> [header |-> header, rows |-> rows]]

SheetHeader == [i \in 1..13 |-> Str(REQUIRED_COLUMNS[i])]

\* An annotated sheet: the tf title in capitals, a number, a padded "2", a
\* row without cells.
AnnotatedSheet ==
    SheetFile([SheetHeader EXCEPT ![13] = Str(<<"TF">>)],
              << SheetRow(Str(Pos), Str(<<"a">>), Num(1)),
                 [i \in 1..13 |-> Undefined],
                 SheetRow(Str(Pos), Str(<<"b", SP>>), Str(<<SP, "2">>)) >>)

ShortSheet == SheetFile(SubSeq(SheetHeader, 1, 12), <<>>)

AppSheetPool == {AnnotatedSheet, ShortSheet}

UploadSheetPool == {AnnotatedSheet, ShortSheet}

\* What the tf editor can hand to updateTf.
TfKeystrokes == {<<>>, <<"0">>, <<"1", SP>>, <<"2">>}

InitApp ==
    /\ RawIdle
    /\ AppIdle
    /\ AnnIdle
    /\ ValIdle
    /\ TfIdle
    /\ AggIdle

\* The rows the table shows, each with its tf input and its delete button.
ShownRows == IF tableData = Null THEN {} ELSE 1..Len(tableData.rows)

\* Every handler the two steps offer, over the files the user picks from.
NextOver(files, sheets) ==
    \/ \E f \in files : AtStep1(HandleFileChange(f))
    \/ AtStep1(ProcessFileStart)
    \/ AtStep1(ProcessFileFinish)
    \/ \E f \in sheets : AtStep1(HandleXlsxFileChange(f))
    \/ AtStep1(ResetXlsxUpload)
    \/ AtStep1(ProcessXlsxFileStart)
    \/ \E k \in 1..MaxPending : AtStep1(ProcessXlsxFileFinish(k))
    \/ AtStep1(Reset)
    \/ \E i \in ShownRows, v \in TfKeystrokes : AtStep1(UpdateTf(i, v))
    \/ \E i \in ShownRows : AtStep1(DeleteRow(i))
    \/ HandleGoToNext
    \/ AnnProcessInputTable
    \/ AnnReset
    \/ HandleBackToStep1
    \/ HandleResetAll

NextApp == NextOver(AppFilePool, AppSheetPool)

SpecApp == InitApp /\ [][NextApp]_vars

NextUpload == NextOver(UploadFilePool, UploadSheetPool)

SpecUpload == InitApp /\ [][NextUpload]_vars

----------------------------------------------------------------------------
(* One file taken through both stages without an edit *)

\* Files of two data rows under the required header: the comments and flags
\* vary, the second row is of the first row's group or of another.
RoundTripFiles ==
    {TextFile(<< Join(REQUIRED_COLUMNS, <<TAB>>),
                 DataLine(Pos, Good, rc1, tf1),
                 DataLine(Pos, op2, rc2, tf2) >>) :
        rc1 \in {<<"x", DOLLAR, "y">>, <<"x">>, <<SP, "x", DOLLAR>>},
        rc2 \in {<<"z">>, <<>>},
        tf1 \in {<<"1">>, <<"0">>},
        tf2 \in {<<"0">>, <<"1">>},
        op2 \in {Good, <<"b", "a", "d">>}}

NextRoundTrip ==
    \/ file = Null /\ tableData = Null
           /\ \E f \in RoundTripFiles : AtStep1(HandleFileChange(f))
    \/ AtStep1(ProcessFileStart)
    \/ AtStep1(ProcessFileFinish)
    \/ HandleGoToNext
    \/ AnnProcessInputTable

SpecRoundTrip == InitApp /\ [][NextRoundTrip]_vars

\* The table row the scenario's lines expand to.
ScenarioRow(rc, tf) ==
    [i \in 1..13 |-> CASE i = 5 -> Pos
                       [] i = 9 -> Good
                       [] i = 12 -> rc
                       [] i = 13 -> tf
                       [] OTHER -> X]

\* The scenario's file was decoded and its table handed to step 2.
ScenarioHanded ==
    /\ decoded # Null
    /\ decoded.lines =
           << Join(REQUIRED_COLUMNS, <<TAB>>),
              DataLine(Pos, Good, <<"x", DOLLAR, "y">>, <<"1">>),
              DataLine(Pos, Good, <<"z">>, <<"0">>) >>
    /\ currentStep = 2

\* The rows of the handed table made from input row i: they agree with it
\* in every cell but raw_comments.
MadeFrom(i) ==
    {k \in 1..Len(processedTableData.rows) :
        \A c \in (1..13) \ {12} :
            processedTableData.rows[k][c] = decoded.rows[i][c]}

\* What the scenario's aggregation gives: one record, its raw_comments
\* "x$y$z", its done_time the first input row's tf as written out.
ScenarioOutput ==
    aggResult # NotRun =>
        /\ aggResult.kind = "ok"
        /\ Len(aggResult.renamedData) = 1
        /\ result.rowCount = 1
        /\ aggResult.renamedData[1]["raw_comments"] =
               Str(<<"x", DOLLAR, "y", DOLLAR, "z">>)
        /\ StringOf(aggResult.renamedData[1]["done_time"]) = decoded.rows[1][13]

----------------------------------------------------------------------------
(* The gate between the two steps *)

\* Every row of the table has "0" or "1" in its tf cell once trimmed.
TfAllBinary(table) ==
    LET c == IndexOf(table.columns, <<"tf">>)
    IN  /\ c > 0
        /\ \A i \in 1..Len(table.rows) :
               Trim(table.rows[i][c]) \in {<<"0">>, <<"1">>}

\* C12: whatever uploads, tf edits and row deletions came before, the step
\* changes from 1 to 2 only with a table whose every trimmed tf cell is "0"
\* or "1", and this table is the one handed on; the table shown at step 2
\* is such a table; and a step that sets a validation error is taken on a
\* table with another tf value, keeps the step at 1 and hands nothing on.
C12_ValidationGate ==
    /\ [](currentStep = 2 =>
              processedTableData # Null /\ TfAllBinary(processedTableData))
    /\ [][ /\ (currentStep = 1 /\ currentStep' = 2) =>
                  /\ tableData # Null
                  /\ TfAllBinary(tableData)
                  /\ processedTableData' = tableData
           /\ (validationError' # Null /\ validationError' # validationError) =>
                  /\ tableData # Null
                  /\ ~TfAllBinary(tableData)
                  /\ currentStep = 1
                  /\ currentStep' = 1
                  /\ processedTableData' = processedTableData
                  /\ tableData' = tableData
           /\ (currentStep = 1 /\ tableData # Null /\ ~TfAllBinary(tableData))
                  => currentStep' = 1 ]_vars

\* The table of the annotated workbook, whose second row holds "2" as tf,
\* was handed to step 2 with both its rows: the cell was edited before.
C12_Witness ==
    /\ currentStep = 2
    /\ processedTableData # Null
    /\ processedTableData.sourceFileName = AnnotatedSheet.name
    /\ Len(processedTableData.rows) = 2

----------------------------------------------------------------------------
(* Failing operations *)

\* C13: an operation that ends in an error leaves the committed state as it
\* was: a step in which processFile or processXlsxFile of stage 1 reports
\* an error leaves tableData unchanged, and a step in which processFile of
\* stage 2 reports one leaves result unchanged.
C13_FailureKeepsTable ==
    [][ /\ (error = Null /\ error' # Null) => tableData' = tableData
        /\ (xlsxError = Null /\ xlsxError' # Null) => tableData' = tableData
        /\ (annError = Null /\ annError' # Null) => result' = result ]_vars

\* C14: an operation whose decoded table has no data row ends in an error
\* and commits neither table nor result: a step in which processFile ends
\* with no decoded row reports an error and commits no table, a step in
\* which processXlsxFile ends on a sheet without a kept row does the same,
\* and processFile of stage 2 on a handed table without rows gives no
\* result.
C14_EmptyInputFails ==
    [][ /\ (reading # Null /\ reading' = Null /\ Len(decoded'.rows) = 0) =>
               /\ error' # Null
               /\ tableData' \in {Null, tableData}
        /\ \A k \in 1..Len(xlsxReading) :
               ( /\ xlsxReading' = RemoveAt(xlsxReading, k)
                 /\ Len(SheetRows(xlsxReading[k].sheet.rows)) = 0 ) =>
                   /\ xlsxError' # Null
                   /\ tableData' = tableData
        /\ ( /\ currentStep = 2
             /\ processedTableData # Null
             /\ Len(processedTableData.rows) = 0 ) => result' = Null ]_vars

----------------------------------------------------------------------------
(* Operations while a read is pending *)

\* C15: the operations on the table of stage 1 do not overlap: while the
\* read of processFile is pending, no step of another operation changes
\* tableData, and at no time is more than one read in flight.
C15_Serialized ==
    /\ [](Len(xlsxReading) + (IF reading # Null THEN 1 ELSE 0) <= 1)
    /\ [][ (reading # Null /\ reading' # Null) =>
               tableData' = tableData ]_vars

----------------------------------------------------------------------------
(* AnnotatedDataProcessor keeping its download URL in window.downloadUrl,
   under the App of two tabs.  downloadUrl stands for window.downloadUrl. *)

MaxLegacyUrls == 3

\* row.tf || 0
LegacyTerm(v) == IF Falsy(v) THEN Num(0) ELSE v

\* group.reduce((sum, row) => sum + (row.tf || 0), 0): numbers add up, and
\* from the first string on the sum is a string.
RECURSIVE LegacyTfSum(_, _, _)
LegacyTfSum(rows, members, sum) ==
    IF members = <<>> THEN sum
    ELSE LET t == LegacyTerm(Get(rows[Head(members)], "tf"))
         IN  LegacyTfSum(rows, Tail(members),
                 IF sum.kind = "num" /\ t.kind = "num"
                 THEN Num(sum.val + t.val)
                 ELSE Str(StringOf(sum) \o StringOf(t)))

\* Everything processFile computes once arrayBuffer() resolved: the error
\* thrown, or the result set.
LegacyProcess(f) ==
    LET check == ValidateColumns(ActualColumns(f.sheet))
        rows == SheetToJson(f.sheet.header, f.sheet.rows)
        groups == GroupLoop(rows, 1, <<>>)
        kept == {g \in 1..Len(groups) :
                    LegacyTfSum(rows, groups[g].members, Num(0)) # Num(0)}
    IN  IF check # Valid THEN [ok |-> FALSE, error |-> check]
        ELSE IF Len(rows) = 0
             THEN [ok |-> FALSE, error |-> [kind |-> "emptySheet"]]
        ELSE [ok |-> TRUE,
              result |-> [kind |-> "result", rowCount |-> Cardinality(kept),
                          groupCount |-> Len(groups)]]

LegacyHandleFileChange(f) ==
    /\ annFile' = f
    /\ annError' = Null
    /\ result' = Null
    /\ UNCHANGED <<selectedMethod, annProcessing, annReading, downloadUrl,
                   minted, revoked>>
    /\ UNCHANGED <<valVars, rawVars, tfVars, aggVars, appVars>>

\* processFile up to the await; its button shows with a file, while nothing
\* is processed and no result shows.
LegacyProcessFileStart ==
    /\ annFile # Null
    /\ ~annProcessing
    /\ result = Null
    /\ Len(annReading) < MaxPending
    /\ minted + Len(annReading) < MaxLegacyUrls
    /\ annProcessing' = TRUE
    /\ annError' = Null
    /\ annReading' = Append(annReading, [file |-> annFile, alive |-> TRUE])
    /\ UNCHANGED <<selectedMethod, annFile, result, downloadUrl, minted, revoked>>
    /\ UNCHANGED <<valVars, rawVars, tfVars, aggVars, appVars>>

\* processFile from the await on, for the k-th awaited read.  The URL goes
\* into window.downloadUrl with or without the component; the URL held
\* there before is not revoked.
LegacyProcessFileFinish(k) ==
    /\ k \in 1..Len(annReading)
    /\ LET run == LegacyProcess(annReading[k].file)
       IN  /\ IF run.ok
              THEN /\ minted' = minted + 1
                   /\ downloadUrl' = Url(minted + 1)
              ELSE UNCHANGED <<minted, downloadUrl>>
           /\ IF annReading[k].alive
              THEN /\ annProcessing' = FALSE
                   /\ IF run.ok
                      THEN result' = run.result /\ UNCHANGED annError
                      ELSE annError' = run.error /\ UNCHANGED result
              ELSE UNCHANGED <<annProcessing, result, annError>>
    /\ annReading' = RemoveAt(annReading, k)
    /\ UNCHANGED <<selectedMethod, annFile, revoked>>
    /\ UNCHANGED <<valVars, rawVars, tfVars, aggVars, appVars>>

\* reset; its buttons show beside the file, with the error and with the
\* result.
LegacyReset ==
    /\ annFile # Null \/ annError # Null \/ result # Null
    /\ annFile' = Null
    /\ result' = Null
    /\ annError' = Null
    /\ revoked' = IF downloadUrl # Null THEN revoked \cup {downloadUrl} ELSE revoked
    /\ downloadUrl' = Null
    /\ UNCHANGED <<selectedMethod, annProcessing, annReading, minted>>
    /\ UNCHANGED <<valVars, rawVars, tfVars, aggVars, appVars>>

\* setActiveTab('raw') and back: the component is mounted anew, the reads
\* it awaited go on without it, window.downloadUrl stays.
LegacyTabSwitch ==
    /\ annFile # Null \/ annError # Null \/ result # Null
    /\ annFile' = Null
    /\ annProcessing' = FALSE
    /\ annError' = Null
    /\ result' = Null
    /\ annReading' = [k \in 1..Len(annReading) |-> [annReading[k] EXCEPT !.alive = FALSE]]
    /\ UNCHANGED <<selectedMethod, downloadUrl, minted, revoked>>
    /\ UNCHANGED <<valVars, rawVars, tfVars, aggVars, appVars>>

\* A sheet of one group whose tf cells are all 0.
UnfinishedSheet ==
    SheetFile(SheetHeader,
              << SheetRow(Str(Pos), Str(<<"a">>), Num(0)),
                 SheetRow(Str(Pos), Str(<<"b">>), Undefined) >>)

LegacySheetPool == {AnnotatedSheet, ShortSheet, UnfinishedSheet}

NextLegacy ==
    \/ \E f \in LegacySheetPool : LegacyHandleFileChange(f)
    \/ LegacyProcessFileStart
    \/ \E k \in 1..MaxPending : LegacyProcessFileFinish(k)
    \/ LegacyReset
    \/ LegacyTabSwitch

SpecLegacy == InitApp /\ [][NextLegacy]_vars

\* The object URLs created and not revoked.
Unrevoked == {Url(n) : n \in 1..minted} \ revoked

\* C16: whatever runs, file selections, resets and unmounts came before, at
\* most one created download URL is not revoked, it is the one referenced,
\* and the URL offered for download is not a revoked one.
C16_UrlsRevoked ==
    /\ Cardinality(Unrevoked) <= 1
    /\ Unrevoked \subseteq {downloadUrl}
    /\ downloadUrl # Null => downloadUrl \notin revoked

----------------------------------------------------------------------------
(* Editing the tf column *)

\* The cells in which two tables of the same shape differ.
ChangedCells(old, new) ==
    {<<i, c>> \in (1..Len(old.rows)) \X (1..Len(old.columns)) :
        old.rows[i][c] # new.rows[i][c]}

\* C17: updateTf accepts the inputs that are "", "0" or "1" once trimmed
\* and no other: a step that sets the hint leaves the table as it was, with
\* every row, cell and column, and a step that counts as an edit and keeps
\* the number of rows clears the hint and changes at most one cell, a cell
\* of the tf column, to "", "0" or "1".
C17_TfAlphabet ==
    [][ /\ (tfHint' = TfHintText /\ tfHint # TfHintText) =>
               tableData' = tableData
        /\ ( /\ tableEdits' = tableEdits + 1
             /\ tableData # Null
             /\ tableData' # Null
             /\ Len(tableData'.rows) = Len(tableData.rows) ) =>
               /\ tfHint' = Null
               /\ tableData'.columns = tableData.columns
               /\ tableData'.sourceFileName = tableData.sourceFileName
               /\ Cardinality(ChangedCells(tableData, tableData')) <= 1
               /\ \A p \in ChangedCells(tableData, tableData') :
                      /\ tableData.columns[p[2]] = <<"tf">>
                      /\ tableData'.rows[p[1]][p[2]] \in {<<>>, <<"0">>, <<"1">>} ]_vars

\* An input was accepted and written, a later one refused with the hint.
C17_Witness ==
    /\ tfHint = TfHintText
    /\ tableData # Null
    /\ tableEdits > 0
    /\ \E i \in 1..Len(tableData.rows) :
           tableData.rows[i][IndexOf(tableData.columns, <<"tf">>)] = <<"1">>

----------------------------------------------------------------------------
(* What an aggregation run leaves of its input *)

\* The rows handed to transformAndAggregate by processFromInputTable.
HandedRows(t) ==
    [i \in 1..Len(t.rows) |->
        RowObject([c \in 1..Len(t.columns) |-> Trim(ToLowerCase(t.columns[c]))],
                  t.rows[i])]

\* The run of stage 2 that took place leaves the table it was handed as it
\* was, and its rows were made from that table.
TableKept ==
    [][ aggResult' # aggResult =>
            /\ processedTableData' = processedTableData
            /\ processedTableData # Null
            /\ jsonData' = HandedRows(processedTableData) ]_vars

\* A second run, on the rows as the first one left them, gives the output
\* of the first.
SameAgain ==
    aggResult.kind = "ok" =>
        /\ transformAndAggregate(aggResult.jsonData).renamedData = aggResult.renamedData
        /\ transformAndAggregate(aggResult.jsonData).groupCount = aggResult.groupCount
        /\ transformAndAggregate(jsonData).renamedData = aggResult.renamedData

\* C18 as claimed: transformAndAggregate leaves every input row as it was
\* passed in, with the same fields and the same tf and raw_comments, the
\* handed table is unchanged by the run, and a second run gives the same
\* output.
C18_InputUntouched ==
    /\ [](aggResult # NotRun => aggResult.jsonData = jsonData /\ SameAgain)
    /\ TableKept

\* C18 as the code has it: of every input row transformAndAggregate
\* overwrites the tf field with the number normalizeTf gives for it and
\* leaves every other field, raw_comments among them, as passed in, also in
\* the rows whose copy became an output record with merged comments; the
\* handed table is unchanged by the run, and a second run gives the same
\* output.
C18_InputCoerced ==
    /\ [](aggResult.kind = "ok" =>
             /\ Len(aggResult.jsonData) = Len(jsonData)
             /\ \A i \in 1..Len(jsonData) :
                    /\ DOMAIN aggResult.jsonData[i] = DOMAIN jsonData[i] \cup {"tf"}
                    /\ \A k \in DOMAIN jsonData[i] \ {"tf"} :
                           aggResult.jsonData[i][k] = jsonData[i][k]
                    /\ aggResult.jsonData[i]["tf"] =
                           normalizeTf(Get(jsonData[i], "tf")).val
             /\ SameAgain)
    /\ TableKept

\* A run whose first record carries merged comments that its source row
\* does not, and whose input rows had their tf text replaced by a number.
C18_Witness ==
    /\ aggResult.kind = "ok"
    /\ Len(aggResult.renamedData) >= 1
    /\ \E i \in 1..Len(jsonData) :
           /\ jsonData[i]["tf"].kind = "str"
           /\ aggResult.jsonData[i]["tf"].kind = "num"
           /\ aggResult.renamedData[1]["raw_comments"] # jsonData[i]["raw_comments"]
           /\ \A c \in {"sentiment_tag", "opinion"} :
                  aggResult.renamedData[1][c] = jsonData[i][c]
    /\ aggResult.renamedData[1]["raw_comments"] = Str(<<"a", DOLLAR, "b">>)

----------------------------------------------------------------------------
(* The gate applied to tables of more rows than its report lists *)

MaxGateRows == 12

MaxGateValid == 2

\* Workbooks of up to MaxGateRows rows whose tf cell is missing, but for at
\* most MaxGateValid rows, which hold 1.
GateSheets ==
    UNION {{SheetFile(SheetHeader,
                      [i \in 1..n |->
                          SheetRow(Str(Pos), Str(<<"c">>),
                                   IF i \in valid THEN Num(1) ELSE Undefined)]) :
               valid \in {T \in SUBSET (1..n) : Cardinality(T) <= MaxGateValid}} :
           n \in 0..MaxGateRows}

\* The table of a workbook shows, made by processXlsxFile.
InitGate ==
    /\ \E f \in GateSheets :
           /\ xlsxFile = f
           /\ tableData = ProcessSheet(f).table
    /\ file = Null
    /\ processing = FALSE
    /\ reading = Null
    /\ error = Null
    /\ tfHint = Null
    /\ decoded = Null
    /\ validationError = Null
    /\ xlsxError = Null
    /\ xlsxProcessing = FALSE
    /\ xlsxReading = <<>>
    /\ tableEdits = 0
    /\ currentStep = 1
    /\ processedTableData = tableData
    /\ AnnIdle
    /\ ValIdle
    /\ TfIdle
    /\ AggIdle

NextGate == HandleGoToNext

SpecGate == InitGate /\ [][NextGate]_vars

\* The 1-based numbers of the rows whose trimmed tf cell is not "0" or "1".
Offenders(table) ==
    {i \in 1..Len(table.rows) :
        Trim(table.rows[i][IndexOf(table.columns, <<"tf">>)])
            \notin {<<"0">>, <<"1">>}}

\* C20: the report of a failing gate lists 1-based numbers of offending
\* rows in ascending order, the first 10 of them at most, and when there
\* are more than 10 offenders it gives as count of further rows the number
\* of offenders less 10; with 10 or fewer it gives no such count.
C20_GateReport ==
    (validationError # Null /\ validationError.kind = "tfReport") =>
        LET shown == validationError.displayRows
            bad == Offenders(tableData)
        IN  /\ bad # {}
            /\ Len(shown) = (IF Cardinality(bad) < 10 THEN Cardinality(bad) ELSE 10)
            /\ \A k \in 1..Len(shown) :
                   /\ shown[k] \in bad
                   /\ Cardinality({j \in bad : j < shown[k]}) = k - 1
            /\ validationError.showsMore <=> Cardinality(bad) > 10
            /\ validationError.showsMore =>
                   validationError.moreCount = Cardinality(bad) - 10

\* Twelve rows, all but the second offending: ten are listed, one more
\* is counted.
C20_Witness ==
    /\ validationError # Null
    /\ validationError.kind = "tfReport"
    /\ Len(tableData.rows) = 12
    /\ Offenders(tableData) = (1..12) \ {2}
    /\ validationError.displayRows = <<1, 3, 4, 5, 6, 7, 8, 9, 10, 11>>
    /\ validationError.showsMore
    /\ validationError.moreCount = 1

----------------------------------------------------------------------------
(* The tf column stage 1 appends *)

\* C21: when the decoded header has no tf column, the committed table's
\* columns are the header followed by tf and every row has one more cell
\* than the header, the last one empty; a file whose header is the first
\* twelve required columns is accepted with rows of thirteen cells; a
\* header that already holds tf is committed as it is, rows as decoded.
C21_TfAppended ==
    decoded # Null =>
        IF HasTf(decoded.header)
        THEN tableData # Null =>
                /\ tableData.columns = decoded.header
                /\ \A i \in 1..Len(tableData.rows) :
                       Len(tableData.rows[i]) = Len(decoded.header)
        ELSE /\ decoded.header = SubSeq(REQUIRED_COLUMNS, 1, 12) =>
                    /\ tableData # Null
                    /\ error = Null
                    /\ \A i \in 1..Len(tableData.rows) :
                           Len(tableData.rows[i]) = 13
             /\ tableData # Null =>
                    /\ tableData.columns = Append(decoded.header, <<"tf">>)
                    /\ \A i \in 1..Len(tableData.rows) :
                           /\ Len(tableData.rows[i]) = Len(decoded.header) + 1
                           /\ tableData.rows[i][Len(decoded.header) + 1] = <<>>

\* A twelve-column file with a two-piece line, committed as two rows.
C21_Witness ==
    /\ decoded # Null
    /\ decoded.header = SubSeq(REQUIRED_COLUMNS, 1, 12)
    /\ tableData # Null
    /\ Len(decoded.data) = 1
    /\ Len(tableData.rows) = 2
    /\ tableData.rows[2][13] = <<>>

----------------------------------------------------------------------------
(* The shape and the columns of the stage-1 table *)

\* C22: in every reachable state of stage 1, whatever processFile,
\* processXlsxFile, updateTf, deleteRow and reset did before, a table that
\* is not null has rows that are all as long as its column list.
C22_TableShape ==
    tableData # Null =>
        \A i \in 1..Len(tableData.rows) :
            Len(tableData.rows[i]) = Len(tableData.columns)

\* The table of the twelve-column text file after a tf edit on its row.
C22_Witness ==
    /\ tableData # Null
    /\ tableData.sourceFileName = NoTfFile.name
    /\ tableEdits > 0
    /\ Len(tableData.rows) = 1
    /\ tableData.rows[1][13] = <<"1">>

\* C23: whenever the stage-1 table is not null its column list is the
\* required schema exactly, tf edits and row deletions included; the table
\* handed to stage 2 passes the schema validation of processFromInputTable,
\* which therefore never reports a schema error.
C23_ColumnsRequired ==
    /\ tableData # Null => tableData.columns = REQUIRED_COLUMNS
    /\ processedTableData # Null =>
          /\ processedTableData.columns = REQUIRED_COLUMNS
          /\ ValidateColumns([c \in 1..Len(processedTableData.columns) |->
                 Trim(ToLowerCase(processedTableData.columns[c]))]) = Valid
    /\ annError.kind \notin {"length", "order"}

\* The twelve-column text file's table, edited, handed over and processed
\* by stage 2.
C23_Witness ==
    /\ currentStep = 2
    /\ processedTableData # Null
    /\ processedTableData.sourceFileName = NoTfFile.name
    /\ tableEdits > 0
    /\ result # Null

----------------------------------------------------------------------------
(* The grouping key *)

\* The (sentiment_tag, opinion) pair of a row.
PairOf(row) == <<Get(row, "sentiment_tag"), Get(row, "opinion")>>

\* C24: rows with different (sentiment_tag, opinion) pairs never share a
\* group: all members of a group formed by the aggregation hold the same
\* pair.
C24_PairsSeparate ==
    (aggResult # NotRun /\ aggResult.kind = "ok") =>
        \A g \in 1..Len(aggResult.groups) :
            \A m, n \in 1..Len(aggResult.groups[g].members) :
                PairOf(jsonData[aggResult.groups[g].members[m]]) =
                    PairOf(jsonData[aggResult.groups[g].members[n]])

----------------------------------------------------------------------------
(* The lines stage-1 decoding keeps *)

\* C25: every data line that is not blank and whose tab-split cell count is
\* the header's column count is in the decoded table, before expansion,
\* with its cells in order, a line whose first or last cell is empty
\* included.
C25_ShapeKept ==
    decoded # Null =>
        \A i \in 2..Len(decoded.lines) :
            (/\ Trim(decoded.lines[i]) # <<>>
             /\ Len(Split(decoded.lines[i], TAB)) = Len(decoded.header)) =>
                \E k \in 1..Len(decoded.data) :
                    /\ decoded.data[k].line = i
                    /\ decoded.data[k].cells =
                           [c \in 1..Len(decoded.header) |->
                               normalizeCell(Split(decoded.lines[i], TAB)[c])]

----------------------------------------------------------------------------
(* Stage 2 fed by an uploaded workbook *)

\* Headers validateColumns accepts: spelled exactly, tf or raw_comments in
\* capitals, sentiment_tag padded with spaces.
OfflineHeaders ==
    { SheetHeader,
      [SheetHeader EXCEPT ![13] = Str(<<"TF">>)],
      [SheetHeader EXCEPT ![12] = Str(<<"RAW_COMMENTS">>)],
      [SheetHeader EXCEPT ![5] = Str(<<SP, "sentiment_tag", SP>>)] }

\* Two groups, the first with a positive member.
OfflineRows ==
    << SheetRow(Str(Pos), Str(<<"a">>), Num(1)),
       SheetRow(Str(Good), Str(<<"b">>), Str(<<"0">>)),
       SheetRow(Str(Pos), Str(<<"c">>), Str(<<"0">>)) >>

OfflineSheetPool ==
    {SheetFile(h, OfflineRows) : h \in OfflineHeaders}
        \cup {SheetFile(SheetHeader, <<>>), ShortSheet}

\* AnnotatedDataProcessor as a host constructs it with preferredMethod
\* 'offline' and no input table.
InitOffline ==
    /\ RawIdle
    /\ ValIdle
    /\ TfIdle
    /\ AggIdle
    /\ currentStep = 2
    /\ processedTableData = Null
    /\ selectedMethod = "offline"
    /\ annFile = Null
    /\ annProcessing = FALSE
    /\ annReading = <<>>
    /\ annError = Null
    /\ result = Null
    /\ downloadUrl = Null
    /\ minted = 0
    /\ revoked = {}

NextOffline ==
    \/ \E f \in OfflineSheetPool : AnnHandleFileChange(f)
    \/ AnnProcessFileStart
    \/ \E k \in 1..MaxPending : AnnProcessFileFinish(k)
    \/ AnnReset

SpecOffline == InitOffline /\ [][NextOffline]_vars

\* The workbook with its header cells replaced by their normalized names.
Respelled(f) ==
    [f EXCEPT !.sheet.header =
        [c \in 1..Len(f.sheet.header) |-> Str(ActualColumns(f.sheet)[c])]]

\* C26: a workbook whose header validation accepts gives the groups, the
\* surviving records and the tf-to-done_time rename that the same rows
\* give under the exactly spelled lowercase header.
C26_NormalizedNames ==
    [][\A k \in 1..Len(annReading) :
          (/\ annReading' = RemoveAt(annReading, k)
           /\ ValidateColumns(ActualColumns(annReading[k].file.sheet)) = Valid) =>
              LET exact == processFromFile(Respelled(annReading[k].file)).agg
              IN  /\ aggResult'.kind = exact.kind
                  /\ aggResult'.kind = "ok" =>
                        /\ aggResult'.groups = exact.groups
                        /\ aggResult'.renamedData = exact.renamedData]_vars

----------------------------------------------------------------------------
(* Reads in flight across a reset *)

\* C27: after reset no file and no workbook is selected, and until the user
\* selects one and starts processFile or processXlsxFile anew, tableData
\* stays null and no error appears: a read that was in flight when reset
\* ran commits neither its table nor its error.
C27_ResetHolds ==
    [][(file = Null /\ xlsxFile = Null) =>
          /\ tableData = Null => tableData' = Null
          /\ error = Null => error' = Null
          /\ xlsxError = Null => xlsxError' = Null]_vars

----------------------------------------------------------------------------
(* Going back to step 1 *)

\* C28: going back from step 2 to step 1 (handleBackToStep1, then the mount
\* of RawDataProcessor and its effects) leaves processedTableData as it was
\* at step 2.
C28_BackKeepsTable ==
    [][(currentStep = 2 /\ currentStep' = 1 /\ result = Null) =>
          processedTableData' = processedTableData]_vars

----------------------------------------------------------------------------
(* The groups that survive *)

\* C29: a group has a record in the result if and only if one of its
\* members has a coerced tf equal to 1.
C29_PositiveSurvives ==
    (aggResult # NotRun /\ aggResult.kind = "ok") =>
        \A i \in Leaders(jsonData) :
            (\E k \in 1..Len(aggResult.renamedData) :
                 GroupKey(aggResult.renamedData[k]) = GroupKey(jsonData[i]))
              <=> (\E j \in GroupOf(jsonData, i) :
                       Coerced(Get(jsonData[j], "tf")) = 1)

----------------------------------------------------------------------------
(* The table editor called with any row index *)

MaxEditRows == 3

\* Workbooks of up to MaxEditRows rows whose tf cell is missing or 0.
EditSheets ==
    {SheetFile(SheetHeader, rows) :
        rows \in UNION {[1..n -> {SheetRow(Str(Pos), Str(<<"c">>), tf) :
                                     tf \in {Undefined, Num(0)}}] :
                        n \in 0..MaxEditRows}}

\* The table of a workbook shows, made by processXlsxFile.
InitEdit ==
    /\ \E f \in EditSheets :
           /\ xlsxFile = f
           /\ tableData = ProcessSheet(f).table
    /\ file = Null
    /\ processing = FALSE
    /\ reading = Null
    /\ error = Null
    /\ tfHint = Null
    /\ decoded = Null
    /\ validationError = Null
    /\ xlsxError = Null
    /\ xlsxProcessing = FALSE
    /\ xlsxReading = <<>>
    /\ tableEdits = 0
    /\ currentStep = 1
    /\ processedTableData = tableData
    /\ AnnIdle
    /\ ValIdle
    /\ TfIdle
    /\ AggIdle

\* The indices a caller can pass: those of the rows, 0-based -1 and the
\* two past the end.
EditIndices == 0..(MaxEditRows + 2)

NextEdit ==
    \/ \E i \in EditIndices, v \in TfKeystrokes : AtStep1(UpdateTf(i, v))
    \/ \E i \in EditIndices : AtStep1(DeleteRow(i))

SpecEdit == InitEdit /\ [][NextEdit]_vars

\* The table differs from the one before in nothing but cell c of row i,
\* which holds v.
OnlyCell(before, after, i, c, v) ==
    /\ after.columns = before.columns
    /\ after.sourceFileName = before.sourceFileName
    /\ Len(after.rows) = Len(before.rows)
    /\ \A r \in 1..Len(before.rows) :
           /\ Len(after.rows[r]) = Len(before.rows[r])
           /\ \A d \in 1..Len(before.rows[r]) :
                  after.rows[r][d] = IF r = i /\ d = c THEN v ELSE before.rows[r][d]

\* The table is the one before without row i, the others in their order.
OnlyRowGone(before, after, i) ==
    /\ after.columns = before.columns
    /\ after.sourceFileName = before.sourceFileName
    /\ Len(after.rows) = Len(before.rows) - 1
    /\ \A r \in 1..Len(after.rows) :
           after.rows[r] = IF r < i THEN before.rows[r] ELSE before.rows[r + 1]

\* C30: an accepted updateTf(i, v) changes the tf cell of row i to the
\* trimmed v and nothing else, a refused one changes nothing; deleteRow(i)
\* removes row i and keeps the other rows in their order; either call with
\* an index that is out of range leaves the table as it is.
C30_EditsTargetOnly ==
    [][/\ \A i \in EditIndices, v \in TfKeystrokes :
             AtStep1(UpdateTf(i, v)) =>
                 IF i \in 1..Len(tableData.rows) /\ Trim(v) \in {<<>>, <<"0">>, <<"1">>}
                 THEN OnlyCell(tableData, tableData', i, 13, Trim(v))
                 ELSE tableData' = tableData
       /\ \A i \in EditIndices :
             AtStep1(DeleteRow(i)) =>
                 IF i \in 1..Len(tableData.rows)
                 THEN OnlyRowGone(tableData, tableData', i)
                 ELSE tableData' = tableData]_vars

\* A table of three rows after updateTf set the second row's tf cell to 1.
C30_Witness ==
    /\ tableData # Null
    /\ tableEdits = 1
    /\ Len(tableData.rows) = 3
    /\ tableData.rows[1][13] = <<>>
    /\ tableData.rows[2][13] = <<"1">>
    /\ tableData.rows[3][13] = <<"0">>

----------------------------------------------------------------------------
(* validateColumns applied to the column lists a caller can hand it *)

MaxEdits == 2

\* Titles a file can carry in place of a required one: none, a foreign
\* one, and required ones at the wrong place.
EditNames == {<<>>, <<"extra">>, <<"tf">>, <<"part_time">>}

InitValidate ==
    /\ RawIdle
    /\ AppIdle
    /\ AnnIdle
    /\ TfIdle
    /\ AggIdle
    /\ columns \in {SubSeq(REQUIRED_COLUMNS, 1, k) : k \in {0, 1, 12, 13}}
    /\ edits = 0
    /\ valResult = NotRun

SetColumn(i, n) ==
    /\ valResult = NotRun
    /\ edits < MaxEdits
    /\ i \in 1..Len(columns)
    /\ columns[i] # n
    /\ columns' = [columns EXCEPT ![i] = n]
    /\ edits' = edits + 1
    /\ UNCHANGED <<valResult, rawVars, tfVars, aggVars, appVars, annVars>>

AppendColumn(n) ==
    /\ valResult = NotRun
    /\ edits < MaxEdits
    /\ columns' = Append(columns, n)
    /\ edits' = edits + 1
    /\ UNCHANGED <<valResult, rawVars, tfVars, aggVars, appVars, annVars>>

DropColumn ==
    /\ valResult = NotRun
    /\ edits < MaxEdits
    /\ columns # <<>>
    /\ columns' = SubSeq(columns, 1, Len(columns) - 1)
    /\ edits' = edits + 1
    /\ UNCHANGED <<valResult, rawVars, tfVars, aggVars, appVars, annVars>>

SwapColumns(i) ==
    /\ valResult = NotRun
    /\ edits < MaxEdits
    /\ i \in 1..(Len(columns) - 1)
    /\ columns[i] # columns[i + 1]
    /\ columns' = [columns EXCEPT ![i] = columns[i + 1], ![i + 1] = columns[i]]
    /\ edits' = edits + 1
    /\ UNCHANGED <<valResult, rawVars, tfVars, aggVars, appVars, annVars>>

RunValidate ==
    /\ valResult = NotRun
    /\ valResult' = ValidateColumns(columns)
    /\ UNCHANGED <<columns, edits, rawVars, tfVars, aggVars, appVars, annVars>>

NextValidate ==
    \/ \E i \in 1..(Len(REQUIRED_COLUMNS) + MaxEdits), n \in EditNames : SetColumn(i, n)
    \/ \E n \in EditNames : AppendColumn(n)
    \/ DropColumn
    \/ \E i \in 1..(Len(REQUIRED_COLUMNS) + MaxEdits) : SwapColumns(i)
    \/ RunValidate

SpecValidate == InitValidate /\ [][NextValidate]_vars

----------------------------------------------------------------------------
(* Claims about validateColumns *)

\* The smallest index at which cols differs from the required schema (0: none).
FirstMismatch(cols) ==
    LET bad == {i \in 1..Len(REQUIRED_COLUMNS) : cols[i] # REQUIRED_COLUMNS[i]}
    IN  IF bad = {} THEN 0
        ELSE CHOOSE i \in bad : \A j \in bad : i <= j

\* C1: a column list whose length is not 13 is rejected with the
\* length-mismatch error, never the column-order error; the error carries
\* the actual count, the actual list and the required list, and says
\* "remove" above 13 columns and "add" below 13.
C1_LengthMismatch ==
    (valResult # NotRun /\ Len(columns) # 13) =>
        /\ valResult.kind = "length"
        /\ valResult.count = Len(columns)
        /\ valResult.yourCols = columns
        /\ valResult.required = REQUIRED_COLUMNS
        /\ (Len(columns) > 13 => valResult.directive = "remove")
        /\ (Len(columns) < 13 => valResult.directive = "add")

C1_Witness ==
    /\ valResult # NotRun
    /\ Len(columns) = 14
    /\ SubSeq(columns, 1, 13) = REQUIRED_COLUMNS
    /\ valResult.directive = "remove"

\* C2: a list of 13 columns is accepted exactly when it equals the required
\* schema at every index; otherwise the error names the smallest
\* mismatching index as 1-based column number, with the expected name and
\* the actual name (the placeholder when the title is empty).
C2_OrderByIndex ==
    (valResult # NotRun /\ Len(columns) = 13) =>
        /\ (valResult = Valid) <=> (columns = REQUIRED_COLUMNS)
        /\ (columns # REQUIRED_COLUMNS) =>
              /\ valResult.kind = "order"
              /\ valResult.column = FirstMismatch(columns)
              /\ valResult.expected = REQUIRED_COLUMNS[valResult.column]
              /\ valResult.actual =
                    IF columns[valResult.column] = <<>> THEN EmptyPlaceholder
                    ELSE columns[valResult.column]

\* A permutation of the 13 required names with two mismatching positions.
C2_Witness ==
    /\ valResult # NotRun
    /\ Len(columns) = 13
    /\ {columns[i] : i \in 1..13} = {REQUIRED_COLUMNS[i] : i \in 1..13}
    /\ Cardinality({i \in 1..13 : columns[i] # REQUIRED_COLUMNS[i]}) >= 2
    /\ valResult.kind = "order"

====
